---------------------------- MODULE Spec2Model ----------------------------
(***************************************************************************)
(* Model of the dexgram vault API worker (src/unnamed/part_001) and of    *)
(* its metadata store (src/migrations/0001_initial.sql).                  *)
(*                                                                         *)
(* The metadata store is the pair of tables users and files.  Every       *)
(* request handled by fetch() is a process (a slot of req) that advances   *)
(* from one awaited store or object-store call to the next; each action    *)
(* below is the code between two awaits together with the store call it    *)
(* ends in.  A D1 batch is one transaction and therefore one action.       *)
(*                                                                         *)
(* Spec runs requests one at a time (the originating client serialises    *)
(* its calls); SpecConc interleaves the steps of the requests in flight;   *)
(* SpecToken signs, alters and verifies session tokens (the variable call  *)
(* holds the token at hand and is idle in the other two).  SpecAltered     *)
(* runs a caller whose tokens are altered; SpecPresign, SpecClientCode     *)
(* and SpecRateLimit apply presignUrl, parseClientCode and hitRateLimit    *)
(* to inputs held in call.                                                 *)
(*                                                                         *)
(* Absent values (SQL NULL, JS null/undefined) are the empty sequence      *)
(* <<>>, present values the one-element sequence <<v>>.  Times are ticks   *)
(* of the variable now; one tick is read as one UTC month by               *)
(* monthPathParts.  Sizes are bytes.                                      *)
(***************************************************************************)
EXTENDS Integers, Sequences, FiniteSets, TLC

VARIABLES users, files, now, req, call

vars == <<users, files, now, req, call>>

-----------------------------------------------------------------------------
(* Bounds of the model *)

\* Number of file identifiers crypto.randomUUID() can still hand out.
MaxNewFiles == 1
\* Last tick of the clock.
MaxTime == 1
\* Cap of the downloads of a run.
MaxDownloads == 1

-----------------------------------------------------------------------------
(* Program constants and configuration *)

GB == 1024 * 1024 * 1024

\* env.MAX_UPLOAD_BYTES as deployed in the model (the default, 5 GiB, is
\* beyond TLC's 32-bit integers; the variable is a deployment setting).
MAX_UPLOAD_BYTES == 3

None == <<>>
Some(x) == <<x>>

ClientA == "3912607696116679"
ClientB == "3912607696116670"
\* A well-formed identity with no row in users.
ClientU == "0000000000000000"

Slots == {1, 2}

NewFileIds == {"f" \o ToString(i) : i \in 1..MaxNewFiles}
FileIds == {"a0", "b0"} \cup NewFileIds

\* The body of /uploads/request.  sizeBytes is <<>> when it is not a finite
\* number; mimeType "" stands for a missing or empty value.
UploadBodies ==
    {[mimeType |-> "", sizeBytes |-> Some(2)]}
    \cup {[mimeType |-> "text/plain", sizeBytes |-> s] :
             s \in {None, Some(-1), Some(0), Some(2), Some(3), Some(4)}}
\* What the HEAD probe can report as content-length / content-type.
ObservedSizes == {3}
ObservedTypes == {None, Some("text/plain")}
\* HTTP status of the HEAD probe; 0 stands for a fetch that rejects (timeout).
ProbeStatuses == {200, 404, 0}
\* What the object store answers to the DELETE of an object; 0 stands for a
\* fetch that rejects.
RemovalStatuses == {204, 500, 0}

Ops == {"requestUpload", "completeUpload", "listFiles", "requestDownload",
        "deleteFile"}

-----------------------------------------------------------------------------
(* Pure helpers *)

\* Mutant of userPrefix: one prefix for every tenant.
userPrefixShared(clientCode) == "_"

userPrefix(clientCode) == "_" \o clientCode

\* Mutant of isSubscriptionActive: the subscription still counts at the second
\* it expires.
isSubscriptionActiveAtExpiry(expiresAt, t) == t <= expiresAt

\* Date.now() < new Date(iso).getTime(), both sides in ticks.
isSubscriptionActive(expiresAt, t) == t < expiresAt

padStart2(n) == IF n < 10 THEN "0" \o ToString(n) ELSE ToString(n)

\* Mutant of monthPathParts: getUTCMonth() is used as it is, zero-based.
monthPathPartsZeroBased(t) ==
    LET m0 == 11 + t
    IN  [yyyy |-> ToString(2026 + (m0 \div 12)),
         mm   |-> padStart2(m0 % 12)]

\* Tick 0 is December 2026; getUTCMonth() is zero-based.
monthPathParts(t) ==
    LET m0 == 11 + t
    IN  [yyyy |-> ToString(2026 + (m0 \div 12)),
         mm   |-> padStart2((m0 % 12) + 1)]

\* `${userPrefix(clientCode)}/${yyyy}/${mm}/${fileId}` as its segments.
objectKeyOf(clientCode, t, fileId) ==
    <<userPrefix(clientCode), monthPathParts(t).yyyy, monthPathParts(t).mm, fileId>>

usagePayload(user) ==
    [quotaGb        |-> user.quota_gb,
     usedBytes      |-> user.used_bytes,
     uploadsCount   |-> user.uploads_count,
     downloadsCount |-> user.downloads_count,
     expiresAt      |-> user.subscription_expires_at]

json(body) == [status |-> 200, body |-> body]
badRequest(message, status) == [status |-> status, error |-> message]
\* The catch-all of fetch(): every exception becomes this response.
internalError == [status |-> 500, error |-> "Internal server error"]

\* crypto.randomUUID(): an identifier no row has yet.  Identifiers are
\* interchangeable, so the first unused one stands for any of them; the set is
\* empty once the model's identifiers are used up.
randomUUID ==
    {"f" \o ToString(i) : i \in
        {j \in 1..MaxNewFiles :
            /\ "f" \o ToString(j) \notin DOMAIN files
            /\ \A k \in 1..(j - 1) : "f" \o ToString(k) \in DOMAIN files}}

\* SELECT * FROM users WHERE client_code = ?
getUser(clientCode) ==
    IF clientCode \in DOMAIN users THEN Some(users[clientCode]) ELSE None

\* Mutant of selectLiveFile: the row is looked up by file_id alone among the
\* live rows, whoever owns it.
selectLiveFileOfAnyTenant(fileId, clientCode) ==
    IF /\ fileId \in DOMAIN files
       /\ files[fileId].deleted_at = None
    THEN Some([file_id |-> fileId] @@ files[fileId])
    ELSE None

\* SELECT * FROM files WHERE file_id = ? AND client_code = ? AND deleted_at IS NULL
\* (complete and delete).  The row is returned with its key.
selectLiveFile(fileId, clientCode) ==
    IF /\ fileId \in DOMAIN files
       /\ files[fileId].client_code = clientCode
       /\ files[fileId].deleted_at = None
    THEN Some([file_id |-> fileId] @@ files[fileId])
    ELSE None

\* ... AND deleted_at IS NULL AND status = 'active' (download).
selectActiveFile(fileId, clientCode) ==
    IF /\ fileId \in DOMAIN files
       /\ files[fileId].client_code = clientCode
       /\ files[fileId].deleted_at = None
       /\ files[fileId].status = "active"
    THEN Some([file_id |-> fileId] @@ files[fileId])
    ELSE None

\* Mutant of listRows: the query does not filter on status.
listRowsOfAnyStatus(clientCode) ==
    {[file_id    |-> f,
      object_key |-> files[f].object_key,
      size_bytes |-> files[f].size_bytes,
      mime_type  |-> files[f].mime_type,
      created_at |-> files[f].created_at] :
        f \in {g \in DOMAIN files :
                 /\ files[g].client_code = clientCode
                 /\ files[g].deleted_at = None}}

\* GET /files: the rows the listing query returns.
listRows(clientCode) ==
    {[file_id    |-> f,
      object_key |-> files[f].object_key,
      size_bytes |-> files[f].size_bytes,
      mime_type  |-> files[f].mime_type,
      created_at |-> files[f].created_at] :
        f \in {g \in DOMAIN files :
                 /\ files[g].client_code = clientCode
                 /\ files[g].deleted_at = None
                 /\ files[g].status = "active"}}

\* Mutant of uploadRejection: the quota comparison is >= instead of >.
uploadRejectionQuotaOffByOne(mimeType, sizeBytes, user, t) ==
    IF mimeType = "" \/ sizeBytes = None
    THEN Some(badRequest("mimeType and sizeBytes are required", 400))
    ELSE IF sizeBytes[1] <= 0
    THEN Some(badRequest("sizeBytes must be positive", 400))
    ELSE IF sizeBytes[1] > MAX_UPLOAD_BYTES
    THEN Some(badRequest("File too large for plan", 403))
    ELSE IF ~isSubscriptionActive(user.subscription_expires_at, t)
    THEN Some(badRequest("Subscription expired", 403))
    ELSE IF user.used_bytes + sizeBytes[1] >= user.quota_gb * GB
    THEN Some(badRequest("Quota exceeded", 403))
    ELSE None

\* Mutant of uploadRejection: the subscription is checked before the ceiling.
uploadRejectionSubscriptionFirst(mimeType, sizeBytes, user, t) ==
    IF mimeType = "" \/ sizeBytes = None
    THEN Some(badRequest("mimeType and sizeBytes are required", 400))
    ELSE IF sizeBytes[1] <= 0
    THEN Some(badRequest("sizeBytes must be positive", 400))
    ELSE IF ~isSubscriptionActive(user.subscription_expires_at, t)
    THEN Some(badRequest("Subscription expired", 403))
    ELSE IF sizeBytes[1] > MAX_UPLOAD_BYTES
    THEN Some(badRequest("File too large for plan", 403))
    ELSE IF user.used_bytes + sizeBytes[1] > user.quota_gb * GB
    THEN Some(badRequest("Quota exceeded", 403))
    ELSE None

\* The validation of /uploads/request: the response of the first failing
\* check, or None when the upload is admitted.
uploadRejection(mimeType, sizeBytes, user, t) ==
    IF mimeType = "" \/ sizeBytes = None
    THEN Some(badRequest("mimeType and sizeBytes are required", 400))
    ELSE IF sizeBytes[1] <= 0
    THEN Some(badRequest("sizeBytes must be positive", 400))
    ELSE IF sizeBytes[1] > MAX_UPLOAD_BYTES
    THEN Some(badRequest("File too large for plan", 403))
    ELSE IF ~isSubscriptionActive(user.subscription_expires_at, t)
    THEN Some(badRequest("Subscription expired", 403))
    ELSE IF user.used_bytes + sizeBytes[1] > user.quota_gb * GB
    THEN Some(badRequest("Quota exceeded", 403))
    ELSE None

\* Mutant of verifyObjectAndReadHeaders: response.ok is not checked.
verifyObjectIgnoringStatus(status, contentLength, contentType) ==
    Some([sizeBytes   |-> IF contentLength = None THEN 0 ELSE contentLength[1],
          contentType |-> contentType])

\* verifyObjectAndReadHeaders: None when it throws (status not 2xx, or the
\* fetch itself rejects), else the observed size and content type.
verifyObjectAndReadHeaders(status, contentLength, contentType) ==
    IF status < 200 \/ status > 299
    THEN None
    ELSE Some([sizeBytes   |-> IF contentLength = None THEN 0 ELSE contentLength[1],
               contentType |-> contentType])

\* Mutant of completeBranch: the already-active shortcut is missing.
completeBranchAlwaysProbe(file) == "completeProbe"

\* if (file.status === "active") of /uploads/complete: where the handler
\* goes once it holds the file row.
completeBranch(file) ==
    IF file.status = "active" THEN "completeActive" ELSE "completeProbe"

\* COALESCE(?, mime_type)
coalesce(a, b) == IF a # None THEN a ELSE b

\* Mutant of completedRow: the declared size stays the size of record.
completedRowKeepsDeclaredSize(row, objectState) ==
    [row EXCEPT !.mime_type = coalesce(objectState.contentType, @),
                !.status    = "active"]

\* The files row written by the completion batch.
completedRow(row, objectState) ==
    [row EXCEPT !.size_bytes = Some(objectState.sizeBytes),
                !.mime_type  = coalesce(objectState.contentType, @),
                !.status     = "active"]

\* Mutant of completedUser: the bytes are added, the upload is not counted.
completedUserNotCounted(user, objectState, nowIso) ==
    [user EXCEPT !.used_bytes       = @ + objectState.sizeBytes,
                 !.last_activity_at = Some(nowIso)]

\* Mutant of completedUser: the UPDATE of users is not part of the batch.
completedUserOutsideBatch(user, objectState, nowIso) == user

\* The users row written by the completion batch.
completedUser(user, objectState, nowIso) ==
    [user EXCEPT !.used_bytes       = @ + objectState.sizeBytes,
                 !.uploads_count    = @ + 1,
                 !.last_activity_at = Some(nowIso)]

\* The files row written by the deletion batch.
deletedRow(row, nowIso) ==
    [row EXCEPT !.deleted_at = Some(nowIso), !.status = "deleted"]

\* Mutant of deletedUser: the subtraction is not clamped.
deletedUserUnclamped(user, sizeBytes, nowIso) ==
    [user EXCEPT !.used_bytes       = @ - sizeBytes,
                 !.last_activity_at = Some(nowIso)]

\* The users row written by the deletion batch.
deletedUser(user, sizeBytes, nowIso) ==
    [user EXCEPT !.used_bytes =
                     IF @ > sizeBytes THEN @ - sizeBytes ELSE 0,
                 !.last_activity_at = Some(nowIso)]

\* The promise handed to ctx.waitUntil, before and after it settles.
\* .catch(() => undefined) turns a rejection into a fulfilment, so a settled
\* removal carries its outcome and nothing is thrown.
removalDispatched == [settled |-> FALSE, status |-> 0]
removalSettled(status) == [settled |-> TRUE, status |-> status]

\* Mutant of deleteResponse: the removal is awaited and its failure thrown.
deleteResponseAwaitingRemoval(refreshed, user, removal) ==
    IF /\ removal # None
       /\ removal[1].settled
       /\ removal[1].status \notin 200..299
    THEN internalError
    ELSE json([deleted |-> TRUE]
              @@ usagePayload(IF refreshed # None THEN refreshed[1] ELSE user))

\* The response of a deletion.  The removal was handed to ctx.waitUntil and is
\* not awaited: the response does not read it.
deleteResponse(refreshed, user, removal) ==
    json([deleted |-> TRUE]
         @@ usagePayload(IF refreshed # None THEN refreshed[1] ELSE user))

\* Mutant of downloadedUser: last_activity_at is left as it was.
downloadedUserKeepingActivity(user, nowIso) ==
    [user EXCEPT !.downloads_count = @ + 1]

\* The users row written by a download.
downloadedUser(user, nowIso) ==
    [user EXCEPT !.downloads_count  = @ + 1,
                 !.last_activity_at = Some(nowIso)]

-----------------------------------------------------------------------------
(* Session tokens (src/src/utils/clientCode.ts)                            *)
(*                                                                         *)
(* A text is a sequence of one-character strings, a byte array a sequence  *)
(* of numbers 0..255.  Token times are ticks of the clock.                 *)

\* env.SESSION_SECRET, and a secret the worker does not have.
SESSION_SECRET == "s3cr3t"
OtherSecret == "0th3r"

\* The alphabet of btoa/atob, in the order of the 6-bit values 0..63.
Base64Alphabet ==
    <<"A", "B", "C", "D", "E", "F", "G", "H", "I", "J", "K", "L", "M",
      "N", "O", "P", "Q", "R", "S", "T", "U", "V", "W", "X", "Y", "Z",
      "a", "b", "c", "d", "e", "f", "g", "h", "i", "j", "k", "l", "m",
      "n", "o", "p", "q", "r", "s", "t", "u", "v", "w", "x", "y", "z",
      "0", "1", "2", "3", "4", "5", "6", "7", "8", "9", "+", "/">>

\* ASCII whitespace, which atob strips (the tab can occur in a header word).
AsciiWhitespace == {"\t"}

\* Every character of the model's texts, for charCodeAt.
Characters == Base64Alphabet \o <<"-", "_", ".", "=", "!", "\t">>

charCodeAt(ch) == CHOOSE i \in 1..Len(Characters) : Characters[i] = ch

isBase64Char(ch) == \E i \in 1..64 : Base64Alphabet[i] = ch
base64Value(ch) == (CHOOSE i \in 1..64 : Base64Alphabet[i] = ch) - 1
base64Char(n) == Base64Alphabet[n + 1]

\* text.replace(/from/g, to) for a single character.
replaceAll(text, from, to) ==
    [i \in 1..Len(text) |-> IF text[i] = from THEN to ELSE text[i]]

RECURSIVE stripTrailing(_, _)
\* text.replace(/ch+$/g, "")
stripTrailing(text, ch) ==
    IF Len(text) > 0 /\ text[Len(text)] = ch
    THEN stripTrailing(SubSeq(text, 1, Len(text) - 1), ch)
    ELSE text

RECURSIVE btoa(_)
\* btoa over the bytes: three bytes make four characters, '=' pads the end.
btoa(bytes) ==
    IF Len(bytes) = 0 THEN <<>>
    ELSE IF Len(bytes) = 1
    THEN <<base64Char(bytes[1] \div 4),
           base64Char((bytes[1] % 4) * 16), "=", "=">>
    ELSE IF Len(bytes) = 2
    THEN <<base64Char(bytes[1] \div 4),
           base64Char((bytes[1] % 4) * 16 + bytes[2] \div 16),
           base64Char((bytes[2] % 16) * 4), "=">>
    ELSE <<base64Char(bytes[1] \div 4),
           base64Char((bytes[1] % 4) * 16 + bytes[2] \div 16),
           base64Char((bytes[2] % 16) * 4 + bytes[3] \div 64),
           base64Char(bytes[3] % 64)>>
         \o btoa(SubSeq(bytes, 4, Len(bytes)))

base64UrlEncode(data) ==
    stripTrailing(replaceAll(replaceAll(btoa(data), "+", "-"), "/", "_"), "=")

RECURSIVE decodeSextets(_)
\* The bytes of a run of base64 characters; the bits left over at the end
\* (four after two characters, two after three) are discarded unread.
decodeSextets(text) ==
    IF Len(text) < 2 THEN <<>>
    ELSE LET a == base64Value(text[1])
             b == base64Value(text[2])
         IN  IF Len(text) = 2 THEN <<a * 4 + b \div 16>>
             ELSE LET c == base64Value(text[3])
                  IN  IF Len(text) = 3
                      THEN <<a * 4 + b \div 16, (b % 16) * 16 + c \div 4>>
                      ELSE <<a * 4 + b \div 16, (b % 16) * 16 + c \div 4,
                             (c % 4) * 64 + base64Value(text[4])>>
                           \o decodeSextets(SubSeq(text, 5, Len(text)))

\* atob (forgiving-base64 decode): None when it throws InvalidCharacterError.
atob(data) ==
    LET stripped == SelectSeq(data, LAMBDA ch : ch \notin AsciiWhitespace)
        n        == Len(stripped)
        unpadded ==
            IF n > 0 /\ n % 4 = 0 /\ stripped[n] = "="
            THEN IF stripped[n - 1] = "="
                 THEN SubSeq(stripped, 1, n - 2)
                 ELSE SubSeq(stripped, 1, n - 1)
            ELSE stripped
    IN  IF \/ Len(unpadded) % 4 = 1
           \/ \E i \in 1..Len(unpadded) : ~isBase64Char(unpadded[i])
        THEN None
        ELSE Some(decodeSextets(unpadded))

\* base64UrlDecode: None when atob throws.
base64UrlDecode(input) ==
    LET normalized == replaceAll(replaceAll(input, "-", "+"), "_", "/")
        padding    == [i \in 1..((4 - (Len(normalized) % 4)) % 4) |-> "="]
    IN  atob(normalized \o padding)

\* The tenants a payload can name, for JSONstringify.
Identities == <<ClientA, ClientB, ClientU>>

\* toUtf8Bytes(JSON.stringify(payload)), reduced to one byte per field, in the
\* order of the fields: the identity (by its place in Identities), iat, exp.
JSONstringify(payload) ==
    <<CHOOSE i \in 1..Len(Identities) : Identities[i] = payload.clientCode,
      payload.iat, payload.exp>>

\* JSON.parse(fromUtf8Bytes(bytes)): None when it throws SyntaxError.
JSONparse(bytes) ==
    IF Len(bytes) = 3 /\ bytes[1] \in 1..Len(Identities)
    THEN Some([clientCode |-> Identities[bytes[1]],
               iat |-> bytes[2], exp |-> bytes[3]])
    ELSE None

RECURSIVE macFold(_, _)
macFold(h, text) ==
    IF text = <<>> THEN h
    ELSE macFold((h * 31 + charCodeAt(Head(text))) % 65521, Tail(text))

\* crypto.subtle.sign("HMAC", key, data): a keyed digest of the text.  The
\* digest has two bytes where SHA-256 has 32; both lengths leave two bytes for
\* the last base64 group, so the last character of the encoded signature
\* carries four bits of the digest and two unused bits, as in the program.
hmacSha256(secret, text) ==
    LET h == macFold(IF secret = SESSION_SECRET THEN 40503 ELSE 9973, text)
    IN  <<h \div 256, h % 256>>

\* `v1.${payloadPart}.${signature}`
signSessionToken(payload, secret) ==
    LET payloadPart  == base64UrlEncode(JSONstringify(payload))
        signingInput == <<"v", "1", ".">> \o payloadPart
    IN  signingInput \o <<".">> \o base64UrlEncode(hmacSha256(secret, signingInput))

RECURSIVE split(_, _)
\* text.split(separator) for a one-character separator.
split(text, separator) ==
    IF \A i \in 1..Len(text) : text[i] # separator
    THEN <<text>>
    ELSE LET i == CHOOSE j \in 1..Len(text) :
                    /\ text[j] = separator
                    /\ \A k \in 1..(j - 1) : text[k] # separator
         IN  <<SubSeq(text, 1, i - 1)>>
             \o split(SubSeq(text, i + 1, Len(text)), separator)

\* An element of a destructured array; undefined is read as the empty text
\* (the program only tests these for falsiness and against "v1").
elementAt(parts, i) == IF i <= Len(parts) THEN parts[i] ELSE <<>>

\* What verifySessionToken can do: return null, return the payload, throw.
returnsNull == [outcome |-> "null", payload |-> None]
returnsPayload(payload) == [outcome |-> "payload", payload |-> Some(payload)]
throws == [outcome |-> "throws", payload |-> None]

\* Mutant of verifySessionToken: a token is still accepted at its expiry.
verifySessionTokenAtExpiry(token, secret, t) ==
    LET parts         == split(token, ".")
        version       == elementAt(parts, 1)
        payloadPart   == elementAt(parts, 2)
        signaturePart == elementAt(parts, 3)
    IN  IF version # <<"v", "1">> \/ payloadPart = <<>> \/ signaturePart = <<>>
        THEN returnsNull
        ELSE LET signingInput == <<"v", "1", ".">> \o payloadPart
                 signature    == base64UrlDecode(signaturePart)
             IN  IF signature = None THEN throws
                 ELSE IF signature[1] # hmacSha256(secret, signingInput)
                 THEN returnsNull
                 ELSE LET bytes == base64UrlDecode(payloadPart)
                      IN  IF bytes = None THEN throws
                          ELSE IF JSONparse(bytes[1]) = None THEN throws
                          ELSE IF JSONparse(bytes[1])[1].exp >= t
                          THEN returnsPayload(JSONparse(bytes[1])[1])
                          ELSE returnsNull

\* verifySessionToken at time t.
verifySessionToken(token, secret, t) ==
    LET parts         == split(token, ".")
        version       == elementAt(parts, 1)
        payloadPart   == elementAt(parts, 2)
        signaturePart == elementAt(parts, 3)
    IN  IF version # <<"v", "1">> \/ payloadPart = <<>> \/ signaturePart = <<>>
        THEN returnsNull
        ELSE LET signingInput == <<"v", "1", ".">> \o payloadPart
                 signature    == base64UrlDecode(signaturePart)
             IN  IF signature = None THEN throws
                 ELSE IF signature[1] # hmacSha256(secret, signingInput)
                 THEN returnsNull
                 ELSE LET bytes == base64UrlDecode(payloadPart)
                      IN  IF bytes = None THEN throws
                          ELSE IF JSONparse(bytes[1]) = None THEN throws
                          ELSE IF JSONparse(bytes[1])[1].exp > t
                          THEN returnsPayload(JSONparse(bytes[1])[1])
                          ELSE returnsNull

\* getAuthClientCode at time t.  The argument is the second word of the
\* authorization header, None when the header has none.  The result is the
\* identity, null (None), or the exception of verifySessionToken.
getAuthClientCode(token, t) ==
    IF token = None \/ token = Some(<<>>)
    THEN [outcome |-> "returns", clientCode |-> None]
    ELSE LET verified == verifySessionToken(token[1], SESSION_SECRET, t)
         IN  IF verified.outcome = "throws"
             THEN [outcome |-> "throws", clientCode |-> None]
             ELSE IF verified.outcome = "payload"
             THEN [outcome |-> "returns",
                   clientCode |-> Some(verified.payload[1].clientCode)]
             ELSE [outcome |-> "returns", clientCode |-> None]

\* The session /auth/login issues to the calling tenant: it outlives the run.
SessionA == [clientCode |-> ClientA, iat |-> 0, exp |-> MaxTime + 1]

\* The tokens a caller presents.  TokenA is the calling tenant's; the others
\* are one case each of a token that does not authenticate: a tenant with no
\* users row, a session whose expiry has passed, a signature made with
\* another secret, another version tag, a token cut after its payload, and a
\* signature segment that is not base64url.
TokenA == signSessionToken(SessionA, SESSION_SECRET)
TokenU == signSessionToken([SessionA EXCEPT !.clientCode = ClientU], SESSION_SECRET)
TokenExpired == signSessionToken([SessionA EXCEPT !.exp = 0], SESSION_SECRET)
TokenForged == signSessionToken(SessionA, OtherSecret)
TokenWrongVersion == <<"v", "2">> \o SubSeq(TokenA, 3, Len(TokenA))
TokenTwoParts ==
    split(TokenA, ".")[1] \o <<".">> \o split(TokenA, ".")[2]
TokenBadSignature == SubSeq(TokenA, 1, Len(TokenA) - 1) \o <<"!">>

\* The second word of the authorization header: absent, or a token.  ClientA
\* is the tenant that calls; ClientB is the other tenant, whose rows lie in
\* the same tables (the handlers treat every tenant alike).
AuthInputs ==
    {None} \cup {Some(token) : token \in
                   {TokenA, TokenU, TokenExpired, TokenForged,
                    TokenWrongVersion, TokenTwoParts, TokenBadSignature}}

\* The calling tenant's token as a careless or tampering caller passes it on:
\* with a fourth part after the signature, and with the last character of
\* the signature changed in the bits that atob discards.
TokenFourParts == TokenA \o <<".", "x">>
TokenTrailingBits ==
    LET last == base64Value(TokenA[Len(TokenA)])
    IN  SubSeq(TokenA, 1, Len(TokenA) - 1)
        \o <<base64Char(IF last % 2 = 0 THEN last + 1 ELSE last - 1)>>
AlteredAuthInputs == {Some(TokenFourParts), Some(TokenTrailingBits)}

\* await getAuthClientCode(request, env) for every header of the model at
\* every time of the clock, tabulated.
authenticated ==
    [t \in 0..MaxTime |->
        [auth \in AuthInputs \cup AlteredAuthInputs |-> getAuthClientCode(auth, t)]]

-----------------------------------------------------------------------------
(* Client codes *)

\* A client code as the caller types it is a sequence of one-character
\* strings, like a token.

\* What \d matches.
Digits == {"0", "1", "2", "3", "4", "5", "6", "7", "8", "9"}
\* What \s matches, as far as the texts of the model go.
WhiteSpace == {" ", "\t"}

\* text.replace(/\s+/g, ""): every run of white space is taken out.
removeWhiteSpace(text) == SelectSeq(text, LAMBDA ch : ch \notin WhiteSpace)

RECURSIVE trimStart(_)
trimStart(text) ==
    IF text # <<>> /\ Head(text) \in WhiteSpace THEN trimStart(Tail(text))
    ELSE text

RECURSIVE trimEnd(_)
trimEnd(text) ==
    IF text # <<>> /\ text[Len(text)] \in WhiteSpace
    THEN trimEnd(SubSeq(text, 1, Len(text) - 1))
    ELSE text

\* text.trim()
trim(text) == trimEnd(trimStart(text))

\* CLIENT_CODE_PATTERN.test(text), the pattern being /^\d{16}$/
CLIENT_CODE_PATTERN(text) ==
    /\ Len(text) = 16
    /\ \A i \in 1..Len(text) : text[i] \in Digits

normalizeClientCodeTrimOnly(input) == trim(input)

normalizeClientCode(input) == trim(removeWhiteSpace(input))

\* null is None.
parseClientCode(input) ==
    LET normalized == normalizeClientCode(input)
    IN  IF CLIENT_CODE_PATTERN(normalized) THEN Some(normalized) ELSE None

\* The string of a sequence of characters: the key of the users table.
RECURSIVE stringOf(_)
stringOf(text) ==
    IF text = <<>> THEN "" ELSE Head(text) \o stringOf(Tail(text))

\* The client codes of the model, as typed.  TypedA is ClientA, TypedB is
\* ClientB and TypedU is ClientU.
TypedA ==
    <<"3", "9", "1", "2", "6", "0", "7", "6", "9", "6", "1", "1", "6", "6",
      "7", "9">>
TypedB == SubSeq(TypedA, 1, 15) \o <<"0">>
TypedU == [i \in 1..16 |-> "0"]
\* ClientA as README.md writes it: "3912 6076 9611 6679".
TypedAInGroups ==
    SubSeq(TypedA, 1, 4) \o <<" ">> \o SubSeq(TypedA, 5, 8) \o <<" ">>
    \o SubSeq(TypedA, 9, 12) \o <<" ">> \o SubSeq(TypedA, 13, 16)

\* env.TOKEN_TTL_SECONDS, in ticks of the clock: a session outlives the run.
TOKEN_TTL_SECONDS == MaxTime + 1

-----------------------------------------------------------------------------
(* State *)

Idle ==
    [pc |-> "idle", op |-> "", token |-> None, clientCode |-> None, fileId |-> "",
     sizeBytes |-> None, mimeType |-> "", user |-> None, file |-> None,
     probe |-> None, objectState |-> None, nowIso |-> None, removal |-> None,
     resp |-> None]

users0 ==
         (ClientA :> [quota_gb |-> 1, used_bytes |-> GB - 2,
                      uploads_count |-> 1, downloads_count |-> 0,
                      subscription_expires_at |-> 1,
                      last_activity_at |-> None])
         @@
         (ClientB :> [quota_gb |-> 1, used_bytes |-> 1,
                      uploads_count |-> 1, downloads_count |-> 0,
                      subscription_expires_at |-> 0,
                      last_activity_at |-> None])

files0 ==
         ("a0" :> [client_code |-> ClientA,
                   object_key  |-> objectKeyOf(ClientA, 0, "a0"),
                   size_bytes  |-> Some(GB - 2),
                   mime_type   |-> Some("text/plain"),
                   status      |-> "active",
                   deleted_at  |-> None,
                   created_at  |-> 0])
         @@
         ("b0" :> [client_code |-> ClientB,
                   object_key  |-> objectKeyOf(ClientB, 0, "b0"),
                   size_bytes  |-> Some(1),
                   mime_type   |-> Some("text/plain"),
                   status      |-> "active",
                   deleted_at  |-> None,
                   created_at  |-> 0])

\* No token at hand.
NoEdit == [kind |-> "none", at |-> 0, char |-> ""]
NoCall ==
    [stage |-> "none", payload |-> None, secret |-> "", token |-> <<>>,
     edit |-> NoEdit, verifier |-> "", result |-> None]

Init ==
    /\ users = users0
    /\ files = files0
    /\ now = 0
    /\ req = [r \in Slots |-> Idle]
    /\ call = NoCall

Finish(r, response) ==
    req' = [req EXCEPT ![r].pc = "done", ![r].resp = Some(response)]

Goto(r, pc) == req' = [req EXCEPT ![r].pc = pc]

-----------------------------------------------------------------------------
(* Actions *)

\* Downloads counted since Init, over all tenants.
downloadsSoFar ==
    users[ClientA].downloads_count + users[ClientB].downloads_count

\* The clock advances.
Tick ==
    /\ now < MaxTime
    /\ now' = now + 1
    /\ UNCHANGED <<users, files, req, call>>

\* A request arrives and passes the authentication gate: getAuthClientCode,
\* then getUser.  An exception of getAuthClientCode reaches the catch-all of
\* fetch().  The body is parsed by the route's handler, after the gate, so a
\* request the gate rejects carries no inputs; inputs an operation does not
\* read are left at their defaults.  The environment is taken as well
\* configured: the tenant's bucket configuration is present and valid
\* (part_001:153-167, 202-240).  The rate limiter, which comes first, is the
\* caller's part: it lets the request through.
\* A new invocation takes the first free slot.
Begin(r, op, auth, fileId, sizeBytes, mimeType) ==
    /\ req[r].pc = "idle"
    /\ \A s \in Slots : s < r => req[s].pc # "idle"
    /\ op = "requestUpload" => fileId = ""
    /\ op # "requestUpload" => sizeBytes = None /\ mimeType = ""
    /\ op = "listFiles" => fileId = ""
    /\ op = "requestDownload" => downloadsSoFar < MaxDownloads
    /\ LET gate       == authenticated[now][auth]
           clientCode == gate.clientCode
           started    == [Idle EXCEPT !.op = op, !.token = auth,
                                      !.clientCode = clientCode,
                                      !.fileId = fileId, !.sizeBytes = sizeBytes,
                                      !.mimeType = mimeType]
       IN  /\ IF clientCode = None \/ getUser(clientCode[1]) = None
              THEN fileId = "" /\ sizeBytes = None /\ mimeType = ""
              ELSE op \in {"completeUpload", "requestDownload", "deleteFile"}
                      => fileId # ""
           /\ IF gate.outcome = "throws"
              THEN req' = [req EXCEPT ![r] =
                      [started EXCEPT !.pc = "done",
                                      !.resp = Some(internalError)]]
              ELSE IF clientCode = None
              THEN req' = [req EXCEPT ![r] =
                      [started EXCEPT !.pc = "done",
                                      !.resp = Some(badRequest("Unauthorized", 401))]]
              ELSE IF getUser(clientCode[1]) = None
              THEN req' = [req EXCEPT ![r] =
                      [started EXCEPT !.pc = "done",
                                      !.resp = Some(badRequest("Unauthorized", 401))]]
              ELSE req' = [req EXCEPT ![r] =
                      [started EXCEPT !.pc = op,
                                      !.user = getUser(clientCode[1])]]
    /\ UNCHANGED <<users, files, now>>

\* POST /uploads/request: validation, then the INSERT of the pending row.
RequestUpload(r) ==
    /\ req[r].pc = "requestUpload"
    /\ LET me        == req[r]
           clientCode == me.clientCode[1]
           rejection == uploadRejection(me.mimeType, me.sizeBytes, me.user[1], now)
       IN  IF rejection # None
           THEN /\ Finish(r, rejection[1])
                /\ UNCHANGED files
           ELSE \E fileId \in randomUUID :
                  LET objectKey == objectKeyOf(clientCode, now, fileId)
                  IN  /\ files' = files @@
                           (fileId :> [client_code |-> clientCode,
                                       object_key  |-> objectKey,
                                       size_bytes  |-> Some(me.sizeBytes[1]),
                                       mime_type   |-> Some(me.mimeType),
                                       status      |-> "pending",
                                       deleted_at  |-> None,
                                       created_at  |-> now])
                      /\ req' = [req EXCEPT
                           ![r].pc = "done",
                           ![r].fileId = fileId,
                           ![r].resp = Some(json(
                              [fileId    |-> fileId,
                               objectKey |-> objectKey,
                               requiredHeaders |->
                                  [contentType   |-> me.mimeType,
                                   contentLength |-> me.sizeBytes[1]]]))]
    /\ UNCHANGED <<users, now, call>>

\* POST /uploads/complete: the lookup of the file row.
CompleteSelect(r) ==
    /\ req[r].pc = "completeUpload"
    /\ LET file == selectLiveFile(req[r].fileId, req[r].clientCode[1])
       IN  IF file = None
           THEN Finish(r, badRequest("File not found", 404))
           ELSE req' = [req EXCEPT ![r].file = file,
                                   ![r].pc = completeBranch(file[1])]
    /\ UNCHANGED <<users, files, now, call>>

\* The file is already active: the refreshed usage is returned.
CompleteActive(r) ==
    /\ req[r].pc = "completeActive"
    /\ LET refreshed == getUser(req[r].clientCode[1])
       IN  Finish(r, json([fileId |-> req[r].file[1].file_id,
                           status |-> "active"]
                          @@ usagePayload(IF refreshed # None THEN refreshed[1]
                                          ELSE req[r].user[1])))
    /\ UNCHANGED <<users, files, now, call>>

\* The HEAD probe of the object store, and what it answers.
CompleteProbe(r) ==
    /\ req[r].pc = "completeProbe"
    /\ \E status \in ProbeStatuses, contentLength \in {None} \cup {Some(n) : n \in ObservedSizes},
          contentType \in ObservedTypes :
          /\ status # 200 => contentLength = None /\ contentType = None
          /\ LET response == [status        |-> status,
                                contentLength |-> contentLength,
                                contentType   |-> contentType]
                 objectState == verifyObjectAndReadHeaders(status, contentLength, contentType)
             IN  IF objectState = None
                 THEN req' = [req EXCEPT ![r].probe = Some(response),
                                         ![r].pc = "done",
                                         ![r].resp = Some(internalError)]
                 ELSE req' = [req EXCEPT ![r].probe = Some(response),
                                         ![r].objectState = objectState,
                                         ![r].nowIso = Some(now),
                                         ![r].pc = "completeBatch"]
    /\ UNCHANGED <<users, files, now, call>>

\* The completion batch: both UPDATEs in one transaction.
CompleteBatch(r) ==
    /\ req[r].pc = "completeBatch"
    /\ LET me == req[r]
       IN  /\ files' = [files EXCEPT ![me.file[1].file_id] =
                            completedRow(@, me.objectState[1])]
           /\ users' = [users EXCEPT ![me.clientCode[1]] =
                            completedUser(@, me.objectState[1], me.nowIso[1])]
    /\ Goto(r, "completeRespond")
    /\ UNCHANGED <<now, call>>

\* The response of a completion: the refreshed usage.
CompleteRespond(r) ==
    /\ req[r].pc = "completeRespond"
    /\ LET refreshed == getUser(req[r].clientCode[1])
       IN  Finish(r, json([fileId    |-> req[r].file[1].file_id,
                           sizeBytes |-> req[r].objectState[1].sizeBytes]
                          @@ usagePayload(IF refreshed # None THEN refreshed[1]
                                          ELSE req[r].user[1])))
    /\ UNCHANGED <<users, files, now, call>>

\* GET /files
ListFiles(r) ==
    /\ req[r].pc = "listFiles"
    /\ Finish(r, json([files |-> listRows(req[r].clientCode[1])]))
    /\ UNCHANGED <<users, files, now, call>>

\* GET /files/:fileId/download: the lookup.
DownloadSelect(r) ==
    /\ req[r].pc = "requestDownload"
    /\ LET file == selectActiveFile(req[r].fileId, req[r].clientCode[1])
       IN  IF file = None
           THEN Finish(r, badRequest("File not found", 404))
           ELSE req' = [req EXCEPT ![r].file = file, ![r].pc = "downloadUpdate"]
    /\ UNCHANGED <<users, files, now, call>>

\* The counter update of a download, and its response.
DownloadUpdate(r) ==
    /\ req[r].pc = "downloadUpdate"
    /\ users' = [users EXCEPT ![req[r].clientCode[1]] = downloadedUser(@, now)]
    /\ Finish(r, json([downloadKey |-> req[r].file[1].object_key]))
    /\ UNCHANGED <<files, now, call>>

\* DELETE /files/:fileId: the lookup.
DeleteSelect(r) ==
    /\ req[r].pc = "deleteFile"
    /\ LET file == selectLiveFile(req[r].fileId, req[r].clientCode[1])
       IN  IF file = None
           THEN Finish(r, badRequest("File not found", 404))
           ELSE req' = [req EXCEPT ![r].file = file,
                                   ![r].nowIso = Some(now),
                                   ![r].pc = "deleteBatch"]
    /\ UNCHANGED <<users, files, now, call>>

\* The deletion batch: both UPDATEs in one transaction.
DeleteBatch(r) ==
    /\ req[r].pc = "deleteBatch"
    /\ LET me        == req[r]
           sizeBytes == IF me.file[1].size_bytes = None THEN 0
                        ELSE me.file[1].size_bytes[1]
       IN  /\ files' = [files EXCEPT ![me.file[1].file_id] =
                            deletedRow(@, me.nowIso[1])]
           /\ users' = [users EXCEPT ![me.clientCode[1]] =
                            deletedUser(@, sizeBytes, me.nowIso[1])]
    /\ Goto(r, "deleteDispatch")
    /\ UNCHANGED <<now, call>>

\* presignUrl of the DELETE, then ctx.waitUntil(fetch(...).catch(...)): the
\* removal of the object is sent off in the background.
DeleteDispatch(r) ==
    /\ req[r].pc = "deleteDispatch"
    /\ req' = [req EXCEPT ![r].removal = Some(removalDispatched),
                            ![r].pc = "deleteRespond"]
    /\ UNCHANGED <<users, files, now, call>>

\* The object store answers the background DELETE, or the fetch rejects.
RemovalSettles(r) ==
    /\ req[r].removal = Some(removalDispatched)
    /\ \E status \in RemovalStatuses :
          req' = [req EXCEPT ![r].removal = Some(removalSettled(status))]
    /\ UNCHANGED <<users, files, now, call>>

\* The response of a deletion: the refreshed usage.
DeleteRespond(r) ==
    /\ req[r].pc = "deleteRespond"
    /\ Finish(r, deleteResponse(getUser(req[r].clientCode[1]), req[r].user[1],
                                req[r].removal))
    /\ UNCHANGED <<users, files, now, call>>

\* The response has been sent and the promises handed to ctx.waitUntil have
\* settled: the invocation ends.
Return(r) ==
    /\ req[r].pc = "done"
    /\ req[r].removal # Some(removalDispatched)
    /\ req' = [req EXCEPT ![r] = Idle]
    /\ UNCHANGED <<users, files, now, call>>

\* The bodies of POST /auth/login: none or one that is not JSON, a clientCode
\* that is empty, and client codes as typed.
LoginBodies ==
    {None} \cup {Some(text) : text \in
                   {<<>>, TypedA, TypedAInGroups, TypedB, TypedU,
                    SubSeq(TypedA, 1, 15)}}

\* POST /auth/login, up to the lookup of the tenant: the route comes before
\* the authentication gate and reads no authorization header.
BeginLogin(r, body) ==
    /\ req[r].pc = "idle"
    /\ \A s \in Slots : s < r => req[s].pc # "idle"
    /\ LET started == [Idle EXCEPT !.op = "login"]
       IN  IF body = None \/ body[1] = <<>>
           THEN req' = [req EXCEPT ![r] =
                   [started EXCEPT !.pc = "done",
                                   !.resp = Some(badRequest("clientCode is required", 400))]]
           ELSE LET clientCode == parseClientCode(body[1])
                IN  IF clientCode = None
                    THEN req' = [req EXCEPT ![r] =
                            [started EXCEPT !.pc = "done",
                                            !.resp = Some(badRequest("Invalid client code format", 400))]]
                    ELSE req' = [req EXCEPT ![r] =
                            [started EXCEPT !.pc = "login",
                                            !.clientCode = Some(stringOf(clientCode[1]))]]
    /\ UNCHANGED <<users, files, now, call>>

\* The lookup of the tenant, the signing of the session and the response.
Login(r) ==
    /\ req[r].pc = "login"
    /\ LET clientCode == req[r].clientCode[1]
           user       == getUser(clientCode)
           expiresInSeconds == TOKEN_TTL_SECONDS
           token == signSessionToken([clientCode |-> clientCode,
                                      iat |-> now,
                                      exp |-> now + expiresInSeconds],
                                     SESSION_SECRET)
       IN  IF user = None
           THEN Finish(r, badRequest("Unknown client code", 404))
           ELSE req' = [req EXCEPT
                   ![r].pc = "done",
                   ![r].user = user,
                   ![r].resp = Some(json(
                       [token |-> token, expiresInSeconds |-> expiresInSeconds]
                       @@ usagePayload(user[1])
                       @@ [subscriptionActive |->
                             isSubscriptionActive(user[1].subscription_expires_at, now)]))]
    /\ UNCHANGED <<users, files, now, call>>

Arrive(r) ==
    \E op \in Ops, auth \in AuthInputs, fileId \in FileIds \cup {""},
       body \in UploadBodies \cup {[mimeType |-> "", sizeBytes |-> None]} :
        /\ Begin(r, op, auth, fileId, body.sizeBytes, body.mimeType)
        /\ UNCHANGED call

\* A request arrives while no other is in flight.
ArriveAlone(r) ==
    /\ \A s \in Slots : req[s].pc = "idle"
    /\ Arrive(r)

Step(r) ==
    \/ RequestUpload(r)
    \/ CompleteSelect(r)
    \/ CompleteActive(r)
    \/ CompleteProbe(r)
    \/ CompleteBatch(r)
    \/ CompleteRespond(r)
    \/ ListFiles(r)
    \/ DownloadSelect(r)
    \/ DownloadUpdate(r)
    \/ DeleteSelect(r)
    \/ DeleteBatch(r)
    \/ DeleteDispatch(r)
    \/ RemovalSettles(r)
    \/ DeleteRespond(r)
    \/ Return(r)

\* The replace routes of README.md, POST /files/:fileId/replace/request and
\* POST /files/:fileId/replace/complete: fetch() has no branch for them.
UnroutedOps == {"requestReplace", "completeReplace"}

\* A request for a replace route arrives while no other request is in flight
\* and meets the authentication gate, as every request but a login does.
ArriveUnroutedAlone(r) ==
    /\ \A s \in Slots : req[s].pc = "idle"
    /\ \E op \in UnroutedOps, auth \in {None, Some(TokenA)},
          fileId \in {"", "a0"} \cup NewFileIds :
          /\ Begin(r, op, auth, fileId, None, "")
          /\ UNCHANGED call
          /\ req'[r].pc = "done" \/ fileId # ""

\* No branch of fetch() matches the method and path: the request falls
\* through to the last statement of the try block.
NotFound(r) ==
    /\ req[r].pc \in UnroutedOps
    /\ Finish(r, badRequest("Not found", 404))
    /\ UNCHANGED <<users, files, now, call>>

\* A login arrives while no other request is in flight.
ArriveLoginAlone(r) ==
    /\ \A s \in Slots : req[s].pc = "idle"
    /\ \E body \in LoginBodies : BeginLogin(r, body)

Next ==
    \/ Tick
    \/ \E r \in Slots : ArriveAlone(r)
    \/ \E r \in Slots : ArriveLoginAlone(r)
    \/ \E r \in Slots : Login(r)
    \/ \E r \in Slots : ArriveUnroutedAlone(r)
    \/ \E r \in Slots : NotFound(r)
    \/ \E r \in Slots : Step(r)

Spec == Init /\ [][Next]_vars

\* The requests of the interleaved runs: one tenant working on its own files,
\* within one tick of the clock.  A request arrives once the answered ones
\* have returned.
ArriveConc(r) ==
    /\ \A s \in Slots : req[s].pc # "done"
    /\ \E op \in Ops, fileId \in {"f1", ""},
       body \in {[mimeType |-> "text/plain", sizeBytes |-> Some(2)],
                 [mimeType |-> "", sizeBytes |-> None]} :
        /\ Begin(r, op, Some(TokenA), fileId, body.sizeBytes, body.mimeType)
        /\ UNCHANGED call

NextConc ==
    \/ \E r \in Slots : ArriveConc(r)
    \/ \E r \in Slots : Step(r)

SpecConc == Init /\ [][NextConc]_vars

\* A request arrives, alone, with the calling tenant's token altered.
ArriveAlteredAlone(r) ==
    /\ \A s \in Slots : req[s].pc = "idle"
    /\ \E op \in Ops, auth \in AlteredAuthInputs, fileId \in FileIds \cup {""},
          body \in {[mimeType |-> "text/plain", sizeBytes |-> Some(2)],
                    [mimeType |-> "", sizeBytes |-> None]} :
          /\ Begin(r, op, auth, fileId, body.sizeBytes, body.mimeType)
          /\ UNCHANGED call

\* The runs of a caller who holds altered tokens only, and logs in.
NextAltered ==
    \/ Tick
    \/ \E r \in Slots : ArriveAlteredAlone(r)
    \/ \E r \in Slots : ArriveLoginAlone(r)
    \/ \E r \in Slots : Login(r)
    \/ \E r \in Slots : Step(r)

SpecAltered == Init /\ [][NextAltered]_vars

-----------------------------------------------------------------------------
(* Session tokens: signing, altering and verifying *)

\* The payloads /auth/login can sign, and the secrets in play.
Payloads ==
    {[clientCode |-> c, iat |-> 0, exp |-> e] :
        c \in {ClientA, ClientU}, e \in 0..(MaxTime + 1)}
Secrets == {SESSION_SECRET, OtherSecret}

\* The characters one character of a token can be replaced by.
ReplacementChars ==
    {Characters[i] : i \in 1..Len(Characters)}

\* The places of a token's last segment.
LastSegment(token) ==
    {i \in 1..Len(token) : \A j \in i..Len(token) : token[j] # "."}

\* Other shapes a caller can give a token it holds.
Reshapings ==
    {"appendPart", "appendDot", "dropSignature", "emptySignature", "version"}
reshaped(token, how) ==
    LET parts == split(token, ".")
    IN  CASE how = "appendPart" -> token \o <<".", "x">>
          [] how = "appendDot" -> token \o <<".">>
          [] how = "dropSignature" -> parts[1] \o <<".">> \o parts[2]
          [] how = "emptySignature" -> parts[1] \o <<".">> \o parts[2] \o <<".">>
          [] how = "version" -> <<"v", "2">> \o SubSeq(token, 3, Len(token))

\* A payload and a secret are at hand, at some time of the clock.
InitToken ==
    /\ users = users0
    /\ files = files0
    /\ now \in 0..MaxTime
    /\ req = [r \in Slots |-> Idle]
    /\ call \in {[NoCall EXCEPT !.stage = "payload", !.payload = Some(p),
                                 !.secret = s] :
                    p \in Payloads, s \in Secrets}

\* signSessionToken(payload, secret)
SignToken ==
    /\ call.stage = "payload"
    /\ call' = [call EXCEPT !.stage = "token",
                            !.token = signSessionToken(call.payload[1], call.secret)]
    /\ UNCHANGED <<users, files, now, req>>

\* One character of the signature segment is replaced by another.
ReplaceSignatureChar ==
    /\ call.stage = "token"
    /\ call.edit = NoEdit
    /\ \E i \in LastSegment(call.token), ch \in ReplacementChars :
          /\ ch # call.token[i]
          /\ call' = [call EXCEPT !.token = [@ EXCEPT ![i] = ch],
                                  !.edit = [kind |-> "replace", at |-> i,
                                            char |-> ch]]
    /\ UNCHANGED <<users, files, now, req>>

\* The token is given another number of parts, or another version tag.
ReshapeToken ==
    /\ call.stage = "token"
    /\ call.edit = NoEdit
    /\ \E how \in Reshapings :
          call' = [call EXCEPT !.token = reshaped(@, how),
                              !.edit = [kind |-> how, at |-> 0, char |-> ""]]
    /\ UNCHANGED <<users, files, now, req>>

\* verifySessionToken(token, secret) at the current time.
VerifyToken ==
    /\ call.stage = "token"
    /\ \E verifier \in Secrets :
          call' = [call EXCEPT !.stage = "verified",
                              !.verifier = verifier,
                              !.result = Some(verifySessionToken(call.token, verifier, now))]
    /\ UNCHANGED <<users, files, now, req>>

NextToken ==
    \/ SignToken
    \/ ReplaceSignatureChar
    \/ ReshapeToken
    \/ VerifyToken

SpecToken == InitToken /\ [][NextToken]_vars

-----------------------------------------------------------------------------
(* Presigned URLs: the headers that are signed *)

\* Cap of the extra headers a caller of presignUrl passes.
MaxExtraHeaders == 2

UpperCaseLetters == SubSeq(Base64Alphabet, 1, 26)
LowerCaseLetters == SubSeq(Base64Alphabet, 27, 52)

\* text.toLowerCase()
toLowerCase(text) ==
    [i \in 1..Len(text) |->
        IF \E n \in 1..26 : UpperCaseLetters[n] = text[i]
        THEN LowerCaseLetters[CHOOSE n \in 1..26 : UpperCaseLetters[n] = text[i]]
        ELSE text[i]]

RECURSIVE collapseWhiteSpace(_)
\* text.replace(/\s+/g, " "): every run of white space becomes one space.
collapseWhiteSpace(text) ==
    IF text = <<>> THEN <<>>
    ELSE IF Head(text) \in WhiteSpace
    THEN <<" ">> \o collapseWhiteSpace(trimStart(text))
    ELSE <<Head(text)>> \o collapseWhiteSpace(Tail(text))

\* The order in which collation places the characters of a normalized header
\* key: punctuation, then digits, then letters.
CollationOrder ==
    <<"-", "0", "1", "2", "3", "4", "5", "6", "7", "8", "9">> \o LowerCaseLetters

collationPlace(ch) == CHOOSE i \in 1..Len(CollationOrder) : CollationOrder[i] = ch

RECURSIVE localeCompare(_, _)
\* a.localeCompare(b): negative, zero or positive.
localeCompare(a, b) ==
    IF a = <<>> /\ b = <<>> THEN 0
    ELSE IF a = <<>> THEN -1
    ELSE IF b = <<>> THEN 1
    ELSE IF Head(a) = Head(b) THEN localeCompare(Tail(a), Tail(b))
    ELSE IF collationPlace(Head(a)) < collationPlace(Head(b)) THEN -1
    ELSE 1

RECURSIVE insertSorted(_, _)
\* entry put after every entry of the sorted list that does not compare
\* greater: Array.prototype.sort is stable.
insertSorted(sorted, entry) ==
    IF sorted = <<>> THEN <<entry>>
    ELSE IF localeCompare(Head(sorted)[1], entry[1]) <= 0
    THEN <<Head(sorted)>> \o insertSorted(Tail(sorted), entry)
    ELSE <<entry>> \o sorted

RECURSIVE sort(_)
\* entries.sort(([a], [b]) => a.localeCompare(b))
sort(entries) ==
    IF entries = <<>> THEN <<>>
    ELSE insertSorted(sort(SubSeq(entries, 1, Len(entries) - 1)),
                      entries[Len(entries)])

RECURSIVE join(_, _)
\* parts.join(separator)
join(parts, separator) ==
    IF parts = <<>> THEN <<>>
    ELSE IF Len(parts) = 1 THEN parts[1]
    ELSE parts[1] \o separator \o join(Tail(parts), separator)

\* Mutant of canonicalizeHeaders: the entries are left in the order of
\* Object.entries.
canonicalizeHeadersUnsorted(headers) ==
    LET normalized ==
            [i \in 1..Len(headers) |->
                <<toLowerCase(trim(headers[i][1])),
                  collapseWhiteSpace(trim(headers[i][2]))>>]
    IN  [canonical |->
            join([i \in 1..Len(normalized) |->
                     normalized[i][1] \o <<":">> \o normalized[i][2] \o <<"\n">>],
                 <<>>),
         signedHeaders |->
            join([i \in 1..Len(normalized) |-> normalized[i][1]], <<";">>)]

\* headers is Object.entries(headers): the pairs <<key, value>> in the order
\* of insertion.
canonicalizeHeaders(headers) ==
    LET normalized ==
            sort([i \in 1..Len(headers) |->
                    <<toLowerCase(trim(headers[i][1])),
                      collapseWhiteSpace(trim(headers[i][2]))>>])
    IN  [canonical |->
            join([i \in 1..Len(normalized) |->
                     normalized[i][1] \o <<":">> \o normalized[i][2] \o <<"\n">>],
                 <<>>),
         signedHeaders |->
            join([i \in 1..Len(normalized) |-> normalized[i][1]], <<";">>)]

\* { host, ...extra }: the entries of the object literal.  A key of extra
\* that is exactly "host" replaces the value and keeps the first place.
spread(host, extra) ==
    LET hostKey  == <<"h", "o", "s", "t">>
        others   == SelectSeq(extra, LAMBDA entry : entry[1] # hostKey)
        override == SelectSeq(extra, LAMBDA entry : entry[1] = hostKey)
    IN  <<<<hostKey, IF override = <<>> THEN host ELSE override[1][2]>>>>
        \o others

\* presignUrl, as far as the headers go: the value of the query parameter
\* X-Amz-SignedHeaders and the canonical-headers block of the canonical
\* request.
presignUrl(host, extra) ==
    LET headers == spread(host, extra)
        signing == canonicalizeHeaders(headers)
    IN  [XAmzSignedHeaders |-> signing.signedHeaders,
         canonical         |-> signing.canonical]

\* new URL(bucket.endpoint).host of the bucket configurations.
Hosts ==
    {<<"s", "3", ".", "e", "u">>, <<"s", "3", ".", "u", "s">>}

\* The extra headers callers pass.  The first two are those of the upload
\* URL, with the MIME type and the size of a request body; the others are a
\* key in capitals between blanks, a key that sorts after host, and host
\* itself in two spellings.
ContentType ==
    <<<<"c", "o", "n", "t", "e", "n", "t", "-", "t", "y", "p", "e">>,
      <<"t", "e", "x", "t", "/", "p", "l", "a", "i", "n">>>>
ContentLength ==
    <<<<"c", "o", "n", "t", "e", "n", "t", "-", "l", "e", "n", "g", "t", "h">>,
      <<"2">>>>
ExtraHeaderPool ==
    {ContentType, ContentLength,
     <<<<" ", "A", "c", "c", "e", "p", "t", " ">>, <<" ", "a", " ", "\t", "b", " ">>>>,
     <<<<"x", "-", "i", "d">>, <<"7">>>>,
     <<<<"H", "o", "s", "t">>, <<"o", "t", "h", "e", "r">>>>,
     <<<<"h", "o", "s", "t">>, <<"m", "i", "n", "e">>>>}

\* input.headers: up to MaxExtraHeaders entries with different keys.
ExtraHeaders ==
    UNION {{extra \in [1..n -> ExtraHeaderPool] :
              \A i, j \in 1..n : i # j => extra[i] # extra[j]} :
           n \in 0..MaxExtraHeaders}

InitPresign ==
    /\ users = users0
    /\ files = files0
    /\ now = 0
    /\ req = [r \in Slots |-> Idle]
    /\ call \in {[stage |-> "input", host |-> host, extra |-> extra,
                  result |-> None] :
                    host \in Hosts, extra \in ExtraHeaders}

\* presignUrl(input)
Presign ==
    /\ call.stage = "input"
    /\ call' = [call EXCEPT !.stage = "presigned",
                            !.result = Some(presignUrl(call.host, call.extra))]
    /\ UNCHANGED <<users, files, now, req>>

NextPresign == Presign

SpecPresign == InitPresign /\ [][NextPresign]_vars

-----------------------------------------------------------------------------
(* Client codes: normalizing and parsing *)

\* Cap of the characters typed into a client code beyond its digits.
MaxInserted == 2

\* What a caller types into or around the digits: blanks, tabs, a letter and
\* one more digit.
InsertedChars == WhiteSpace \cup {"a", "5"}
Insertions ==
    UNION {[1..n -> InsertedChars] : n \in 0..MaxInserted}

\* The inputs of parseClientCode: the digits of a client code, one digit
\* short of it, or nothing, with an insertion at one place; and the client
\* code of README.md in groups of four.
ClientCodeInputs ==
    {TypedAInGroups}
    \cup {SubSeq(base, 1, at) \o piece \o SubSeq(base, at + 1, Len(base)) :
             <<base, at, piece>> \in
                {<<b, i, x>> \in {TypedA, SubSeq(TypedA, 1, 15), <<>>}
                                  \X (0..16) \X Insertions :
                     i <= Len(b)}}

InitClientCode ==
    /\ users = users0
    /\ files = files0
    /\ now = 0
    /\ req = [r \in Slots |-> Idle]
    /\ call \in {[stage |-> "input", input |-> input, result |-> None] :
                    input \in ClientCodeInputs}

\* parseClientCode(input)
ParseClientCode ==
    /\ call.stage = "input"
    /\ call' = [call EXCEPT !.stage = "parsed",
                            !.result = Some(parseClientCode(call.input))]
    /\ UNCHANGED <<users, files, now, req>>

\* normalizeClientCode(input)
NormalizeClientCode ==
    /\ call.stage = "input"
    /\ call' = [call EXCEPT !.stage = "normalized",
                            !.result = Some(normalizeClientCode(call.input))]
    /\ UNCHANGED <<users, files, now, req>>

\* normalizeClientCode of what normalizeClientCode returned.
NormalizeAgain ==
    /\ call.stage = "normalized"
    /\ call' = [call EXCEPT !.stage = "normalizedAgain",
                            !.input = call.result[1],
                            !.result = Some(normalizeClientCode(call.result[1]))]
    /\ UNCHANGED <<users, files, now, req>>

NextClientCode ==
    \/ ParseClientCode
    \/ NormalizeClientCode
    \/ NormalizeAgain

SpecClientCode == InitClientCode /\ [][NextClientCode]_vars

-----------------------------------------------------------------------------
(* The rate limiter *)

\* Cap of the requests of a run of the rate limiter.
MaxCalls == 5

\* request.headers.get("cf-connecting-ip") ?? "unknown"
Ips == {"203.0.113.7", "unknown"}

\* env.RATE_LIMIT_MAX_REQUESTS and env.RATE_LIMIT_WINDOW_MS as deployed, the
\* window in ticks of the clock.
RateLimits == {1, 2}
RateWindows == {1, 2}

\* const state = new Map<string, Entry>(): no key has an entry.
emptyState == [key \in Ips |-> None]

\* Mutant of hitRateLimit: the comparison is >= instead of >.
hitRateLimitOneEarly(state, key, maxRequests, windowMs, t) ==
    LET entry == state[key]
    IN  IF entry = None \/ entry[1].resetAt <= t
        THEN [state   |-> [state EXCEPT ![key] =
                              Some([count |-> 1, resetAt |-> t + windowMs])],
              limited |-> FALSE]
        ELSE [state   |-> [state EXCEPT ![key] =
                              Some([entry[1] EXCEPT !.count = @ + 1])],
              limited |-> entry[1].count + 1 >= maxRequests]

\* hitRateLimit(key, maxRequests, windowMs) on the Map state at time t: the
\* Map after the call and the value returned.
hitRateLimit(state, key, maxRequests, windowMs, t) ==
    LET entry == state[key]
    IN  IF entry = None \/ entry[1].resetAt <= t
        THEN [state   |-> [state EXCEPT ![key] =
                              Some([count |-> 1, resetAt |-> t + windowMs])],
              limited |-> FALSE]
        ELSE [state   |-> [state EXCEPT ![key] =
                              Some([entry[1] EXCEPT !.count = @ + 1])],
              limited |-> entry[1].count + 1 > maxRequests]

\* The isolate has just started; call holds the limiter's configuration and
\* Map, and the log of its calls: the key, the time and the value returned.
InitRateLimit ==
    /\ users = users0
    /\ files = files0
    /\ now = 0
    /\ req = [r \in Slots |-> Idle]
    /\ call \in {[limit |-> limit, windowMs |-> windowMs, state |-> emptyState,
                  log |-> <<>>] :
                    limit \in RateLimits, windowMs \in RateWindows}

\* A request arrives, alone, and meets the rate limiter before anything
\* else: a limited request is answered at once, another goes on to the
\* authentication gate (here of GET /files).
ArriveRateLimited(r) ==
    /\ \A s \in Slots : req[s].pc = "idle"
    /\ Len(call.log) < MaxCalls
    /\ \E ip \in Ips :
          LET hit == hitRateLimit(call.state, ip, call.limit, call.windowMs, now)
          IN  /\ call' = [call EXCEPT
                    !.state = hit.state,
                    !.log   = Append(@, [key |-> ip, at |-> now,
                                         limited |-> hit.limited])]
              /\ IF hit.limited
                 THEN /\ req[r].pc = "idle"
                      /\ \A s \in Slots : s < r => req[s].pc # "idle"
                      /\ req' = [req EXCEPT ![r] =
                            [Idle EXCEPT
                               !.pc = "done",
                               !.resp = Some(badRequest("Too many requests", 429))]]
                      /\ UNCHANGED <<users, files, now>>
                 ELSE \E auth \in {None, Some(TokenA)} :
                         Begin(r, "listFiles", auth, "", None, "")

NextRateLimit ==
    \/ Tick
    \/ \E r \in Slots : ArriveRateLimited(r)
    \/ \E r \in Slots : ListFiles(r)
    \/ \E r \in Slots : Return(r)

SpecRateLimit == InitRateLimit /\ [][NextRateLimit]_vars

-----------------------------------------------------------------------------
(* Vocabulary of the properties *)

RECURSIVE SumSizes(_)
\* The sum of size_bytes over a set of file identifiers (NULL counts 0).
SumSizes(S) ==
    IF S = {} THEN 0
    ELSE LET f == CHOOSE g \in S : TRUE
         IN  (IF files[f].size_bytes = None THEN 0 ELSE files[f].size_bytes[1])
             + SumSizes(S \ {f})

ActiveFilesOf(c) ==
    {f \in DOMAIN files : files[f].client_code = c /\ files[f].status = "active"}

InFlight(r) == req[r].pc \notin {"idle", "done"}

Max(a, b) == IF a >= b THEN a ELSE b

-----------------------------------------------------------------------------
(* Properties *)

\* C1: for every tenant, used_bytes equals the sum of size_bytes over the
\* tenant's files with status = active, after any sequence of requestUpload,
\* completeUpload and deleteFile (deleteFile on a pending file included).
C1_Reconciliation ==
    \A c \in DOMAIN users : users[c].used_bytes = SumSizes(ActiveFilesOf(c))

\* C2: every status change of a file is pending -> active or
\* active -> deleted; none skips a state and none goes back.
C2_StatusTransitions ==
    [][\A f \in DOMAIN files :
          \/ files'[f].status = files[f].status
          \/ files[f].status = "pending" /\ files'[f].status = "active"
          \/ files[f].status = "active" /\ files'[f].status = "deleted"]_vars

\* C3: used_bytes never exceeds quota_gb * 2^30 (the quota is never changed
\* and holds in the initial state).
C3_QuotaCeiling ==
    \A c \in DOMAIN users : users[c].used_bytes <= users[c].quota_gb * GB

\* C7: a completeUpload whose probe failed or timed out is answered with a
\* client-fault (4xx) response, not with a server fault.
C7_ProbeFailureIsClientFault ==
    \A r \in Slots :
        (/\ req[r].op = "completeUpload"
         /\ req[r].pc = "done"
         /\ req[r].probe # None
         /\ req[r].probe[1].status \notin 200..299)
        => req[r].resp[1].status \in 400..499

\* C4: a completeUpload on a file that is already active changes no file row
\* and no tenant counter and answers with the current usage; uploads_count
\* and used_bytes grow only in a step that takes one file of the tenant from
\* pending to active, by 1 and by that file's size, and no file ever returns
\* to pending: non-overlapping completions count a file exactly once.
C4_CompleteIdempotent ==
    [][/\ \A r \in Slots :
            (/\ req[r].op = "completeUpload"
             /\ InFlight(r)
             /\ req[r].fileId \in DOMAIN files
             /\ files[req[r].fileId].status = "active")
            => UNCHANGED <<users, files>>
       /\ \A c \in DOMAIN users :
            (\/ users'[c].uploads_count # users[c].uploads_count
             \/ users'[c].used_bytes > users[c].used_bytes)
            => \E f \in DOMAIN files :
                 /\ files[f].client_code = c
                 /\ files[f].status = "pending"
                 /\ files'[f].status = "active"
                 /\ \A g \in DOMAIN files \ {f} : files'[g] = files[g]
                 /\ users'[c].uploads_count = users[c].uploads_count + 1
                 /\ users'[c].used_bytes =
                       users[c].used_bytes + files'[f].size_bytes[1]
       /\ \A f \in DOMAIN files :
            files[f].status # "pending" => files'[f].status # "pending"
       /\ \A r \in Slots :
            (/\ req'[r].op = "completeUpload"
             /\ req'[r].pc = "done"
             /\ req'[r].resp[1].status = 200
             /\ "status" \in DOMAIN req'[r].resp[1].body)
            => req'[r].resp[1].body =
                 [fileId |-> req'[r].fileId, status |-> "active"]
                 @@ usagePayload(users'[req'[r].clientCode[1]])
      ]_vars

\* C4 witness: a completeUpload retried on a file activated earlier in the run
\* has been answered from the idempotent branch, the upload counted once.
C4_Witness ==
    \E r \in Slots :
        /\ req[r].op = "completeUpload"
        /\ req[r].pc = "done"
        /\ req[r].fileId \in NewFileIds
        /\ req[r].resp[1].status = 200
        /\ "status" \in DOMAIN req[r].resp[1].body
        /\ req[r].resp[1].body.uploadsCount = 2

\* C5: the completion batch of a pending file makes the content-length the
\* HEAD probe reported (0 when the header is absent) the file's size_bytes,
\* adds that amount to used_bytes, adds 1 to uploads_count and makes the file
\* active.
C5_ObservedSizeBecomesRecord ==
    [][\A r \in Slots :
          (req[r].pc = "completeBatch" /\ req'[r].pc = "completeRespond")
          => LET f        == req[r].fileId
                 c        == req[r].clientCode[1]
                 reported == req[r].probe[1].contentLength
                 observed == IF reported = None THEN 0 ELSE reported[1]
             IN  /\ files[f].status = "pending"
                 /\ files'[f].status = "active"
                 /\ files'[f].size_bytes = Some(observed)
                 /\ users'[c].used_bytes = users[c].used_bytes + observed
                 /\ users'[c].uploads_count = users[c].uploads_count + 1
      ]_vars

\* C5 witness: a completion has just committed with an observed size that
\* differs from the size declared at requestUpload.
C5_Witness ==
    \E r \in Slots :
        /\ req[r].pc = "completeRespond"
        /\ req[r].file[1].size_bytes = Some(2)
        /\ files[req[r].fileId].size_bytes = Some(3)
        /\ files[req[r].fileId].status = "active"
        /\ users[req[r].clientCode[1]].used_bytes = req[r].user[1].used_bytes + 3

FailedProbe(r) ==
    req[r].probe # None /\ req[r].probe[1].status \notin 200..299

\* C6: a completeUpload changes nothing up to and including its probe, and
\* one whose probe failed (non-2xx status, or timeout) ends there with an
\* error response, the file still pending and selectable by a later
\* completeUpload, users and files untouched.
C6_ProbeFailureChangesNothing ==
    [][\A r \in Slots :
          /\ (req[r].op = "completeUpload"
              /\ req[r].pc \in {"completeUpload", "completeProbe"})
             => UNCHANGED <<users, files>>
          /\ FailedProbe(r)'
             => /\ UNCHANGED <<users, files>>
                /\ req'[r].pc = "done"
                /\ req'[r].resp[1].status >= 400
                /\ files'[req'[r].fileId].status = "pending"
                /\ (selectLiveFile(req[r].fileId, req[r].clientCode[1]) # None)'
      ]_vars

\* C6 witness: a completeUpload ended on a probe that timed out, its file
\* still pending.
C6_Witness ==
    \E r \in Slots :
        /\ FailedProbe(r)
        /\ req[r].probe[1].status = 0
        /\ req[r].pc = "done"
        /\ files[req[r].fileId].status = "pending"

UsedBytesNonNegative == \A c \in DOMAIN users : users[c].used_bytes >= 0

\* C8: the deletion batch sets status = deleted and deleted_at and replaces
\* used_bytes by max(0, used_bytes - recorded size); used_bytes >= 0 in every
\* reachable state.
C8_DeleteClampsAtZero ==
    /\ UsedBytesNonNegative
    /\ [][/\ UsedBytesNonNegative'
          /\ \A r \in Slots :
               (req[r].pc = "deleteBatch" /\ req'[r].pc = "deleteDispatch")
               => LET f        == req[r].fileId
                      c        == req[r].clientCode[1]
                      recorded == IF files[f].size_bytes = None THEN 0
                                  ELSE files[f].size_bytes[1]
                  IN  /\ files'[f].status = "deleted"
                      /\ files'[f].deleted_at # None
                      /\ users'[c].used_bytes =
                            Max(0, users[c].used_bytes - recorded)
         ]_vars

\* C8 witness: a deletion has just committed for a file larger than the
\* tenant's used_bytes, and used_bytes is 0.
C8_Witness ==
    \E r \in Slots :
        /\ req[r].pc = "deleteDispatch"
        /\ files[req[r].fileId].status = "deleted"
        /\ req[r].user[1].used_bytes < req[r].file[1].size_bytes[1]
        /\ users[req[r].clientCode[1]].used_bytes = 0

\* C9: with the other preconditions holding, a requestUpload with
\* used_bytes + sizeBytes = quota_gb * 2^30 is admitted (a pending row is
\* inserted), and one with a byte more is rejected with "Quota exceeded" and
\* inserts no row.
C9_QuotaBoundary ==
    [][\A r \in Slots :
          (req[r].pc = "requestUpload" /\ req'[r].pc = "done")
          => LET u    == users[req[r].clientCode[1]]
                 size == IF req[r].sizeBytes = None THEN 0 ELSE req[r].sizeBytes[1]
                 othersHold ==
                     /\ req[r].mimeType # ""
                     /\ req[r].sizeBytes # None
                     /\ size > 0
                     /\ size <= MAX_UPLOAD_BYTES
                     /\ now < u.subscription_expires_at
             IN  /\ (othersHold /\ u.used_bytes + size = u.quota_gb * GB)
                    => /\ req'[r].resp[1].status = 200
                       /\ \E f \in DOMAIN files' \ DOMAIN files :
                            /\ files'[f].status = "pending"
                            /\ files'[f].size_bytes = Some(size)
                 /\ (othersHold /\ u.used_bytes + size = u.quota_gb * GB + 1)
                    => /\ req'[r].resp[1] = badRequest("Quota exceeded", 403)
                       /\ files' = files
      ]_vars

\* C9 witness: a requestUpload that fills the quota exactly has been admitted.
C9_Witness ==
    \E r \in Slots :
        /\ req[r].op = "requestUpload"
        /\ req[r].pc = "done"
        /\ req[r].resp[1].status = 200
        /\ req[r].user[1].used_bytes + req[r].sizeBytes[1]
              = req[r].user[1].quota_gb * GB

\* C10: requestUpload answers with the error of the first failing check, in
\* the order positive finite size, per-upload ceiling, subscription expiry,
\* quota; a rejected request inserts no row, and no request changes a tenant
\* counter.
C10_FirstFailingCheckWins ==
    [][\A r \in Slots :
          (req[r].pc = "requestUpload" /\ req'[r].pc = "done")
          => LET u    == users[req[r].clientCode[1]]
                 size == IF req[r].sizeBytes = None THEN 0 ELSE req[r].sizeBytes[1]
                 resp == req'[r].resp[1]
                 positiveFinite ==
                     req[r].mimeType # "" /\ req[r].sizeBytes # None /\ size > 0
                 underCeiling == size <= MAX_UPLOAD_BYTES
                 subscribed   == now < u.subscription_expires_at
                 withinQuota  == u.used_bytes + size <= u.quota_gb * GB
             IN  /\ ~positiveFinite => resp.status = 400
                 /\ (positiveFinite /\ ~underCeiling)
                    => resp = badRequest("File too large for plan", 403)
                 /\ (positiveFinite /\ underCeiling /\ ~subscribed)
                    => resp = badRequest("Subscription expired", 403)
                 /\ (positiveFinite /\ underCeiling /\ subscribed /\ ~withinQuota)
                    => resp = badRequest("Quota exceeded", 403)
                 /\ (positiveFinite /\ underCeiling /\ subscribed /\ withinQuota)
                    => resp.status = 200
                 /\ resp.status # 200 => files' = files
                 /\ users' = users
      ]_vars

\* C10 witness: a request over the ceiling that would also exceed the quota
\* has been answered with the ceiling's error.
C10_Witness ==
    \E r \in Slots :
        /\ req[r].op = "requestUpload"
        /\ req[r].pc = "done"
        /\ req[r].sizeBytes = Some(4)
        /\ req[r].user # None
        /\ req[r].user[1].used_bytes + 4 > req[r].user[1].quota_gb * GB
        /\ req[r].resp[1] = badRequest("File too large for plan", 403)

\* The UTC calendar of the clock, for the properties: tick 0 is December 2026.
UtcYear(t) == 2026 + ((11 + t) \div 12)
UtcMonth(t) == ((11 + t) % 12) + 1
TwoDigits(n) ==
    <<"01", "02", "03", "04", "05", "06", "07", "08", "09", "10", "11", "12">>[n]

\* C11: a successful requestUpload inserts exactly one new file row, pending,
\* of the caller, with the declared size and MIME type and the object key
\* _<tenant identity>/<UTC year>/<2-digit UTC month>/<fileId>; every other
\* file row and every tenant row (used_bytes, uploads_count, downloads_count,
\* last_activity_at) is unchanged.
C11_RequestUploadInsertsPending ==
    [][\A r \in Slots :
          (/\ req[r].pc = "requestUpload"
           /\ req'[r].pc = "done"
           /\ req'[r].resp[1].status = 200)
          => LET c == req[r].clientCode[1]
             IN  \E f \in DOMAIN files' \ DOMAIN files :
                   /\ DOMAIN files' = DOMAIN files \cup {f}
                   /\ \A g \in DOMAIN files : files'[g] = files[g]
                   /\ files'[f].client_code = c
                   /\ files'[f].status = "pending"
                   /\ files'[f].deleted_at = None
                   /\ files'[f].size_bytes = req[r].sizeBytes
                   /\ files'[f].mime_type = Some(req[r].mimeType)
                   /\ files'[f].object_key =
                         <<"_" \o c, ToString(UtcYear(now)),
                           TwoDigits(UtcMonth(now)), f>>
                   /\ req'[r].resp[1].body.fileId = f
                   /\ req'[r].resp[1].body.objectKey = files'[f].object_key
                   /\ users' = users
      ]_vars

\* C11 witness: a requestUpload has been admitted and its pending row, keyed
\* under the caller's prefix and the current month, is in the table.
C11_Witness ==
    \E r \in Slots :
        /\ req[r].op = "requestUpload"
        /\ req[r].pc = "done"
        /\ req[r].resp[1].status = 200
        /\ files[req[r].fileId].status = "pending"
        /\ files[req[r].fileId].size_bytes = Some(2)
        /\ files[req[r].fileId].object_key =
              <<"_3912607696116679", "2026", "12", req[r].fileId>>
        /\ users = [c \in DOMAIN users |->
                      IF c = ClientA
                      THEN [quota_gb |-> 1, used_bytes |-> GB - 2,
                            uploads_count |-> 1, downloads_count |-> 0,
                            subscription_expires_at |-> 1,
                            last_activity_at |-> None]
                      ELSE users[c]]

\* C12: in deleteFile the removal of the object is dispatched only once the
\* metadata batch has committed (the row is deleted, used_bytes decremented);
\* whatever the object store then answers changes neither table, and the
\* caller gets the success response with the usage all the same.
C12_RemovalAfterCommitBestEffort ==
    /\ [](\A r \in Slots :
            req[r].removal # None
            => /\ files[req[r].fileId].status = "deleted"
               /\ files[req[r].fileId].deleted_at # None)
    /\ [][\A r \in Slots :
             /\ (req[r].removal = None /\ req'[r].removal # None)
                => LET c    == req[r].clientCode[1]
                       size == IF req[r].file[1].size_bytes = None THEN 0
                               ELSE req[r].file[1].size_bytes[1]
                   IN  /\ files[req[r].fileId].status = "deleted"
                       /\ users[c].used_bytes =
                             Max(0, req[r].user[1].used_bytes - size)
                       /\ UNCHANGED <<users, files>>
             /\ (req[r].removal # None /\ req'[r].removal # req[r].removal
                    /\ req'[r].removal # None)
                => /\ UNCHANGED <<users, files>>
                   /\ req'[r].pc = req[r].pc
                   /\ req'[r].resp = req[r].resp
             /\ (req[r].pc = "deleteRespond" /\ req'[r].pc # "deleteRespond")
                => /\ req'[r].pc = "done"
                   /\ req'[r].resp =
                         Some(json([deleted |-> TRUE]
                                   @@ usagePayload(users[req[r].clientCode[1]])))
         ]_vars

\* C12 witness: a deleteFile has answered with success although the removal
\* of its object failed; the row is deleted.
C12_Witness ==
    \E r \in Slots :
        /\ req[r].op = "deleteFile"
        /\ req[r].pc = "done"
        /\ req[r].removal # None
        /\ req[r].removal[1].settled
        /\ req[r].removal[1].status \in {500, 0}
        /\ req[r].resp[1].status = 200
        /\ req[r].resp[1].body.deleted
        /\ files[req[r].fileId].status = "deleted"

\* Slot r commits its completion batch in this step: the file row and the
\* tenant row are written together.
CompleteBatchStep(r) ==
    /\ req[r].pc = "completeBatch"
    /\ req'[r].pc = "completeRespond"
    /\ LET f == req[r].fileId
           c == req[r].clientCode[1]
       IN  /\ files'[f].status = "active"
           /\ files'[f].size_bytes = Some(req[r].objectState[1].sizeBytes)
           /\ users'[c].used_bytes =
                 users[c].used_bytes + req[r].objectState[1].sizeBytes
           /\ users'[c].uploads_count = users[c].uploads_count + 1

\* Slot r commits its deletion batch in this step.
DeleteBatchStep(r) ==
    /\ req[r].pc = "deleteBatch"
    /\ req'[r].pc = "deleteDispatch"
    /\ LET f    == req[r].fileId
           c    == req[r].clientCode[1]
           size == IF req[r].file[1].size_bytes = None THEN 0
                   ELSE req[r].file[1].size_bytes[1]
       IN  /\ files'[f].status = "deleted"
           /\ files'[f].deleted_at # None
           /\ users'[c].used_bytes = Max(0, users[c].used_bytes - size)

\* C13: with requests interleaved, every step that changes a file's status,
\* size or deleted_at, or a tenant's used_bytes or uploads_count, is the
\* commit of one completion or deletion batch, which writes the file row and
\* the tenant row together: no state lies between the two writes for another
\* request to read.
C13_BatchesAreAtomic ==
    [][(\/ \E f \in DOMAIN files :
              \/ files'[f].status # files[f].status
              \/ files'[f].size_bytes # files[f].size_bytes
              \/ files'[f].deleted_at # files[f].deleted_at
        \/ \E c \in DOMAIN users :
              \/ users'[c].used_bytes # users[c].used_bytes
              \/ users'[c].uploads_count # users[c].uploads_count)
       => \E r \in Slots : CompleteBatchStep(r) \/ DeleteBatchStep(r)
      ]_vars

\* C13 witness: a listing interleaved with a completion, answered after the
\* batch committed and before the completion responded, shows the file
\* active, and used_bytes already includes its size.
C13_Witness ==
    \E r, s \in Slots :
        /\ r # s
        /\ req[r].pc = "completeRespond"
        /\ req[s].op = "listFiles"
        /\ req[s].pc = "done"
        /\ \E row \in req[s].resp[1].body.files : row.file_id = req[r].fileId
        /\ users[ClientA].used_bytes = (GB - 2) + 3
        /\ users[ClientA].uploads_count = 2

\* The three ways a file identifier can fail to name a file of tenant c.
Nonexistent(f) == f \notin DOMAIN files
AlreadyDeleted(f, c) ==
    /\ f \in DOMAIN files
    /\ files[f].client_code = c
    /\ files[f].status = "deleted"
OfAnotherTenant(f, c) == f \in DOMAIN files /\ files[f].client_code # c

\* C14: completeUpload, requestDownload and deleteFile answer a file
\* identifier that does not exist, one already deleted and one of another
\* tenant with the same "File not found" response, and change no file row and
\* no tenant row (a second deleteFile of a file decrements nothing).
C14_NotFoundIndistinguishable ==
    [][\A r \in Slots :
          (/\ req[r].pc \in {"completeUpload", "requestDownload", "deleteFile"}
           /\ req'[r] # req[r]
           /\ LET f == req[r].fileId
                  c == req[r].clientCode[1]
              IN  Nonexistent(f) \/ AlreadyDeleted(f, c) \/ OfAnotherTenant(f, c))
          => /\ req'[r].pc = "done"
             /\ req'[r].resp = Some(badRequest("File not found", 404))
             /\ UNCHANGED <<users, files>>
      ]_vars

\* C14 witness: a second deleteFile of an already deleted file has been
\* answered "File not found", used_bytes as the first deletion left it.
C14_Witness ==
    \E r \in Slots :
        /\ req[r].op = "deleteFile"
        /\ req[r].pc = "done"
        /\ req[r].fileId = "a0"
        /\ AlreadyDeleted("a0", ClientA)
        /\ req[r].resp = Some(badRequest("File not found", 404))
        /\ users[ClientA].used_bytes = 0

\* C15: every request that fails authentication (no token, wrong version,
\* wrong part count, signature segment that is not base64url, forged
\* signature, expired token, unknown tenant) gets one and the same response;
\* verification raises no exception that surfaces as another error class.
C15_AuthFailuresIdentical ==
    \A r \in Slots :
        (/\ req[r].pc = "done"
         /\ req[r].op # "login"
         /\ req[r].token \in AuthInputs \ {Some(TokenA)})
        => req[r].resp = Some(badRequest("Unauthorized", 401))

\* The parts of a token, read off its dots.
Dots(token) == {i \in 1..Len(token) : token[i] = "."}
ThreeNonEmptyParts(token) ==
    /\ Cardinality(Dots(token)) = 2
    /\ 1 \notin Dots(token)
    /\ Len(token) \notin Dots(token)
    /\ \A i \in Dots(token) : i + 1 \notin Dots(token)
FirstPartIsV1(token) ==
    /\ Len(token) >= 2
    /\ token[1] = "v"
    /\ token[2] = "1"
    /\ Len(token) >= 3 => token[3] = "."

\* C16: verifySessionToken returns invalid for every token that does not
\* split on '.' into exactly three non-empty parts (a token of four parts
\* whose first three make a valid token included) and for every token whose
\* first part is not 'v1'.
C16_ExactlyThreePartsAndV1 ==
    (/\ call.stage = "verified"
     /\ ~(ThreeNonEmptyParts(call.token) /\ FirstPartIsV1(call.token)))
    => call.result[1].outcome = "null"

\* C17: verifying a signed token with the signing secret returns the signed
\* payload exactly while the current time is before payload.exp and invalid
\* from payload.exp on; with another secret it is always invalid.
C17_SignVerifyRoundTrip ==
    (call.stage = "verified" /\ call.edit = NoEdit)
    => call.result[1] =
         IF call.verifier = call.secret /\ now < call.payload[1].exp
         THEN [outcome |-> "payload", payload |-> call.payload]
         ELSE [outcome |-> "null", payload |-> None]

\* C17 witness: a token verified with its secret one tick before its expiry
\* has given back the signed payload.
C17_Witness ==
    /\ call.stage = "verified"
    /\ call.edit = NoEdit
    /\ call.verifier = call.secret
    /\ call.payload[1].exp = now + 1
    /\ call.result[1].outcome = "payload"
    /\ call.result[1].payload = call.payload

\* C18: a token with one character of its signature segment replaced by any
\* other character is invalid: verifySessionToken returns invalid for it.
C18_SignatureCharFlipInvalidates ==
    (call.stage = "verified" /\ call.edit.kind = "replace")
    => call.result[1].outcome = "null"

\* The files tenant c can see: its own, active, not deleted.
VisibleTo(c) ==
    {f \in DOMAIN files :
        /\ files[f].client_code = c
        /\ files[f].status = "active"
        /\ files[f].deleted_at = None}

\* C19: listFiles returns exactly the caller's files that are active and
\* have no deleted_at (no pending file, no deleted file, no file of another
\* tenant), and requestDownload mints a URL only for such a file and answers
\* "File not found" otherwise.
C19_OnlyActiveFilesVisible ==
    [][\A r \in Slots :
          LET c == req[r].clientCode[1]
          IN  /\ (req[r].pc = "listFiles" /\ req'[r].pc = "done")
                 => /\ req'[r].resp[1].status = 200
                    /\ {row.file_id : row \in req'[r].resp[1].body.files}
                          = VisibleTo(c)
                    /\ \A row \in req'[r].resp[1].body.files :
                          /\ row.object_key = files[row.file_id].object_key
                          /\ row.size_bytes = files[row.file_id].size_bytes
              /\ (req[r].pc = "requestDownload" /\ req'[r] # req[r])
                 => IF req[r].fileId \in VisibleTo(c)
                    THEN req'[r].pc = "downloadUpdate"
                    ELSE /\ req'[r].pc = "done"
                         /\ req'[r].resp = Some(badRequest("File not found", 404))
              /\ (req[r].pc = "downloadUpdate" /\ req'[r].pc = "done")
                 => /\ req[r].fileId \in VisibleTo(c)
                    /\ req'[r].resp[1].status = 200
                    /\ req'[r].resp[1].body.downloadKey =
                          files[req[r].fileId].object_key
      ]_vars

\* C19 witness: a listing has returned the caller's one active file while a
\* pending file of the caller and an active file of another tenant exist.
C19_Witness ==
    \E r \in Slots :
        /\ req[r].op = "listFiles"
        /\ req[r].pc = "done"
        /\ req[r].resp[1].status = 200
        /\ {row.file_id : row \in req[r].resp[1].body.files} = {"a0"}
        /\ \E f \in DOMAIN files :
              files[f].client_code = ClientA /\ files[f].status = "pending"
        /\ files["b0"].status = "active"

\* C20: a successful requestDownload adds exactly 1 to the tenant's
\* downloads_count and sets last_activity_at to the current time, and changes
\* nothing else (used_bytes, uploads_count, the other tenants, every file
\* row); a download of a visible file succeeds whatever used_bytes is
\* relative to the quota.
C20_DownloadCountsOnce ==
    [][\A r \in Slots :
          LET c == req[r].clientCode[1]
          IN  /\ req[r].pc = "requestDownload" => UNCHANGED <<users, files>>
              /\ (req[r].pc = "requestDownload" /\ req'[r].pc = "done")
                 => req[r].fileId \notin VisibleTo(c)
              /\ (req[r].pc = "downloadUpdate" /\ req'[r] # req[r])
                 => /\ req'[r].pc = "done"
                    /\ req'[r].resp[1].status = 200
                    /\ users' = [users EXCEPT
                          ![c] = [@ EXCEPT
                                    !.downloads_count = users[c].downloads_count + 1,
                                    !.last_activity_at = Some(now)]]
                    /\ files' = files
      ]_vars

\* C20 witness: a download has succeeded for a tenant whose used_bytes is
\* above its quota; it has been counted once.
C20_Witness ==
    \E r \in Slots :
        /\ req[r].op = "requestDownload"
        /\ req[r].pc = "done"
        /\ req[r].resp[1].status = 200
        /\ users[ClientA].used_bytes > users[ClientA].quota_gb * GB
        /\ users[ClientA].downloads_count = 1
        /\ users[ClientA].last_activity_at = Some(now)

\* The subscription of tenant c has run out: its expiry is at or before the
\* current time.
Expired(c) == users[c].subscription_expires_at <= now

\* Has a row in files, owned by c, without deleted_at.
LiveFileOf(f, c) ==
    /\ f \in DOMAIN files
    /\ files[f].client_code = c
    /\ files[f].deleted_at = None

\* C21: subscription expiry gates only new upload admission.  An otherwise
\* admissible requestUpload of a tenant whose subscription_expires_at is at
\* or before the current time is rejected with "Subscription expired" and
\* inserts nothing; login, listFiles, requestDownload, completeUpload of a
\* pending file and deleteFile take the course they take for every tenant,
\* expired or not, and never answer with the subscription error.
C21_ExpiryGatesOnlyAdmission ==
    [][\A r \in Slots :
          LET me == req[r]
              c  == me.clientCode[1]
              f  == me.fileId
          IN  (me.pc \notin {"idle", "done"} /\ req'[r] # me /\ c \in DOMAIN users)
              => /\ (/\ me.pc = "requestUpload"
                     /\ Expired(c)
                     /\ me.mimeType # ""
                     /\ me.sizeBytes # None
                     /\ me.sizeBytes[1] \in 1..MAX_UPLOAD_BYTES)
                    => /\ req'[r].pc = "done"
                       /\ req'[r].resp = Some(badRequest("Subscription expired", 403))
                       /\ files' = files
                 /\ (me.pc # "requestUpload" /\ req'[r].pc = "done")
                    => req'[r].resp # Some(badRequest("Subscription expired", 403))
                 /\ me.pc = "login"
                    => /\ req'[r].resp[1].status = 200
                       /\ req'[r].resp[1].body.token =
                             signSessionToken([clientCode |-> c, iat |-> now,
                                               exp |-> now + TOKEN_TTL_SECONDS],
                                              SESSION_SECRET)
                       /\ req'[r].resp[1].body.usedBytes = users[c].used_bytes
                 /\ me.pc = "listFiles"
                    => /\ req'[r].resp[1].status = 200
                       /\ {row.file_id : row \in req'[r].resp[1].body.files}
                             = VisibleTo(c)
                 /\ (me.pc = "requestDownload" /\ f \in VisibleTo(c))
                    => req'[r].pc = "downloadUpdate"
                 /\ me.pc = "downloadUpdate"
                    => /\ req'[r].resp[1].status = 200
                       /\ users'[c].downloads_count = users[c].downloads_count + 1
                 /\ (me.pc = "completeUpload" /\ LiveFileOf(f, c)
                        /\ files[f].status = "pending")
                    => req'[r].pc = "completeProbe"
                 /\ me.pc = "completeBatch"
                    => files'[f].status = "active"
                 /\ me.pc = "completeRespond"
                    => req'[r].resp[1].status = 200
                 /\ (me.pc = "deleteFile" /\ LiveFileOf(f, c))
                    => req'[r].pc = "deleteBatch"
                 /\ me.pc = "deleteBatch"
                    => /\ files'[f].status = "deleted"
                       /\ files'[f].deleted_at # None
                 /\ (me.pc = "deleteRespond" /\ req'[r].pc = "done")
                    => req'[r].resp[1].status = 200
      ]_vars

\* C21 witness: after its subscription ran out, the tenant has completed the
\* upload of a file that was admitted before.
C21_Witness ==
    \E r \in Slots :
        /\ Expired(ClientA)
        /\ req[r].op = "completeUpload"
        /\ req[r].clientCode = Some(ClientA)
        /\ req[r].pc = "done"
        /\ req[r].nowIso # None
        /\ req[r].nowIso[1] >= users[ClientA].subscription_expires_at
        /\ req[r].resp[1].status = 200
        /\ files[req[r].fileId].status = "active"
        /\ files[req[r].fileId].created_at < users[ClientA].subscription_expires_at

\* C22: replace is available as a two-step operation on an active file.
\* requestReplace of an active file of the caller is answered with a URL for
\* the file's object key; completeReplace of it succeeds, keeps the file
\* identifier and the object key, leaves the file active with the newly
\* observed size, and changes used_bytes by the newly observed size minus
\* the recorded one, clamped at zero.
C22_ReplaceIsAvailable ==
    [][\A r \in Slots :
          LET me == req[r]
              c  == me.clientCode[1]
              f  == me.fileId
          IN  (me.pc \in UnroutedOps /\ req'[r].pc = "done" /\ f \in VisibleTo(c))
              => /\ req'[r].resp[1].status = 200
                 /\ f \in DOMAIN files'
                 /\ files'[f].object_key = files[f].object_key
                 /\ files'[f].status = "active"
                 /\ me.pc = "completeReplace"
                    => \E observed \in ObservedSizes :
                          /\ files'[f].size_bytes = Some(observed)
                          /\ users'[c].used_bytes =
                                Max(0, users[c].used_bytes + observed
                                         - files[f].size_bytes[1])
      ]_vars

\* The names of a list of signed headers, and the keys of the lines of a
\* canonical-headers block.
SignedNames(signedHeaders) ==
    LET parts == split(signedHeaders, ";")
    IN  [i \in 1..Len(parts) |-> stringOf(parts[i])]
CanonicalKeys(canonical) ==
    LET lines == split(canonical, "\n")
    IN  [i \in 1..(Len(lines) - 1) |-> stringOf(split(lines[i], ":")[1])]

\* The header names of the model in alphabetical order.
Alphabetical == <<"accept", "content-length", "content-type", "host", "x-id">>
PlaceOf(name) == CHOOSE i \in 1..Len(Alphabetical) : Alphabetical[i] = name

\* C23 as stated: in every presigned URL host is the first entry of the
\* X-Amz-SignedHeaders list and of the canonical-headers block, for every set
\* of extra headers.
C23_HostIsFirstSignedHeader ==
    call.stage = "presigned"
    => /\ SignedNames(call.result[1].XAmzSignedHeaders)[1] = "host"
       /\ CanonicalKeys(call.result[1].canonical)[1] = "host"

\* C23, amended: in every presigned URL host is among the signed headers,
\* the canonical block has one line per signed header in the same order, and
\* the entries are in alphabetical order of their lower-cased keys; so host
\* is first exactly when no extra header has a key that sorts before it
\* (content-type and content-length of the upload URLs do).  The first host
\* line carries the endpoint's host, or the value of an extra header spelled
\* host exactly; an extra header spelled Host adds a second host entry.
C23_HostIsSignedInAlphabeticalOrder ==
    call.stage = "presigned"
    => LET names == SignedNames(call.result[1].XAmzSignedHeaders)
           keys  == CanonicalKeys(call.result[1].canonical)
           lines == split(call.result[1].canonical, "\n")
           first == CHOOSE i \in 1..Len(names) :
                       /\ names[i] = "host"
                       /\ \A j \in 1..(i - 1) : names[j] # "host"
           firstHostValue ==
               IF \E i \in 1..Len(call.extra) :
                       call.extra[i][1] = <<"h", "o", "s", "t">>
               THEN <<"m", "i", "n", "e">>
               ELSE call.host
       IN  /\ \E i \in 1..Len(names) : names[i] = "host"
           /\ keys = names
           /\ Len(names) = Len(call.extra) + 1
                 \/ \E i \in 1..Len(call.extra) :
                       call.extra[i][1] = <<"h", "o", "s", "t">>
           /\ \A i \in 1..(Len(names) - 1) :
                 PlaceOf(names[i]) <= PlaceOf(names[i + 1])
           /\ lines[first] = <<"h", "o", "s", "t", ":">> \o firstHostValue
           /\ names[1] = "host"
                 <=> \A i \in 1..Len(call.extra) :
                        PlaceOf(stringOf(toLowerCase(trim(call.extra[i][1]))))
                           >= PlaceOf("host")

\* C23 witness: the URL of an upload has been presigned, with content-type
\* and content-length as extra headers, and host is the last of the three
\* signed headers.
C23_Witness ==
    /\ call.stage = "presigned"
    /\ call.extra = <<ContentType, ContentLength>>
    /\ SignedNames(call.result[1].XAmzSignedHeaders)
          = <<"content-length", "content-type", "host">>

\* C24: the object key of a file is fixed when its row is created and no
\* later operation changes it (nor the owner); its first segment is the
\* owner's prefix, "_" and the identity, so it lies under the prefix of no
\* other tenant.
C24_ObjectKeyFixedUnderOwnPrefix ==
    /\ [](\A f \in DOMAIN files :
            /\ Len(files[f].object_key) = 4
            /\ files[f].object_key[1] = "_" \o files[f].client_code
            /\ files[f].object_key[4] = f
            /\ \A c \in DOMAIN users \ {files[f].client_code} :
                  files[f].object_key[1] # "_" \o c)
    /\ [][\A f \in DOMAIN files :
             /\ f \in DOMAIN files'
             /\ files'[f].object_key = files[f].object_key
             /\ files'[f].client_code = files[f].client_code]_vars

\* C24 witness: a file created by an upload request has been completed,
\* downloaded or not, and then deleted, and still has the key it was given.
C24_Witness ==
    \E r \in Slots, f \in NewFileIds :
        /\ req[r].op = "deleteFile"
        /\ req[r].pc = "done"
        /\ req[r].fileId = f
        /\ req[r].resp[1].status = 200
        /\ req[r].file[1].status = "active"
        /\ files[f].status = "deleted"
        /\ files[f].object_key = <<"_" \o ClientA, "2026", "12", f>>

\* The places of a text that hold no white space, and the text read at
\* those places.
InkedPlaces(text) == {i \in 1..Len(text) : text[i] # " " /\ text[i] # "\t"}
Inked(text) ==
    [k \in 1..Cardinality(InkedPlaces(text)) |->
        text[CHOOSE i \in InkedPlaces(text) :
                Cardinality({j \in InkedPlaces(text) : j < i}) = k - 1]]

\* C25: parseClientCode(input) is not invalid if and only if input with all
\* white space removed is exactly 16 decimal digits, and then it is that
\* string ("3912 6076 9611 6679" gives "3912607696116679");
\* normalizeClientCode is idempotent.
C25_ParseIffSixteenDigits ==
    /\ call.stage = "parsed"
       => /\ call.result[1] # None
             <=> /\ Cardinality(InkedPlaces(call.input)) = 16
                 /\ \A i \in InkedPlaces(call.input) :
                       call.input[i] \in {"0", "1", "2", "3", "4", "5", "6",
                                          "7", "8", "9"}
          /\ call.result[1] # None => call.result[1][1] = Inked(call.input)
          /\ call.input = TypedAInGroups
             => /\ call.result[1] # None
                /\ stringOf(call.result[1][1]) = "3912607696116679"
    /\ call.stage = "normalized"
       => call.result[1] = Inked(call.input)
    /\ call.stage = "normalizedAgain"
       => call.result[1] = call.input

\* C25 witness: the client code of README.md, typed in groups of four, has
\* been parsed to its 16 digits.
C25_Witness ==
    /\ call.stage = "parsed"
    /\ call.input = TypedAInGroups
    /\ call.result = Some(Some(TypedA))

\* C26: in every reachable state, however completeUpload and deleteFile
\* requests for one file interleave, a file has deleted_at set if and only if
\* its status is deleted: a completion that commits after the deletion does
\* not make the file active again.
C26_DeletedAtIffStatusDeleted ==
    \A f \in DOMAIN files :
        files[f].deleted_at # None <=> files[f].status = "deleted"

\* C27: when two completeUpload requests for one pending file overlap, the
\* size is added to used_bytes once and uploads_count is incremented once:
\* the batch of the completion that commits second, finding the file active,
\* leaves both counters as they are.
C27_OverlappingCompletionsCountOnce ==
    [][\A r \in Slots :
          (/\ req[r].pc = "completeBatch"
           /\ req'[r].pc = "completeRespond"
           /\ req[r].file[1].status = "pending"
           /\ files[req[r].fileId].status = "active")
          => /\ users'[req[r].clientCode[1]].used_bytes
                   = users[req[r].clientCode[1]].used_bytes
             /\ users'[req[r].clientCode[1]].uploads_count
                   = users[req[r].clientCode[1]].uploads_count
      ]_vars

\* The valid session tokens of the tenants with a row in users that have not
\* expired at time t: what signSessionToken returns for such a session.
ValidTokens ==
    [t \in 0..MaxTime |->
        {signSessionToken([clientCode |-> session[1], iat |-> session[2],
                           exp |-> session[3]], SESSION_SECRET) :
            session \in {x \in (DOMAIN users0) \X (0..MaxTime)
                                \X (0..(MaxTime + TOKEN_TTL_SECONDS)) :
                            x[3] > t}}]

\* C28: no request without a valid, unexpired session token of an existing
\* tenant changes a users row or a files row: every step that changes a row
\* is the step of a request that passed the gate with such a token, and no
\* step of a login changes a row.
C28_OnlyValidTokensWrite ==
    [][(users' # users \/ files' # files)
       => \E r \in Slots :
             /\ req'[r] # req[r]
             /\ req[r].op # "login"
             /\ req[r].token # None
             /\ \E t \in 0..now : req[r].token[1] \in ValidTokens[t]
      ]_vars

\* C29: tenant isolation.  A step of a request authenticated as one tenant
\* changes no users row of another tenant (used_bytes, uploads_count,
\* downloads_count, last_activity_at) and no files row another tenant owns,
\* whatever file identifier the request names.
C29_TenantIsolation ==
    [][\A r \in Slots :
          (req'[r] # req[r] /\ req[r].op \in Ops /\ req[r].clientCode # None)
          => LET c == req[r].clientCode[1]
             IN  /\ \A d \in DOMAIN users \ {c} : users'[d] = users[d]
                 /\ \A f \in DOMAIN files :
                       files[f].client_code # c
                       => f \in DOMAIN files' /\ files'[f] = files[f]
                 /\ \A f \in DOMAIN files' \ DOMAIN files :
                       files'[f].client_code = c
      ]_vars

\* C29 witness: the tenant named the active file of another tenant in a
\* completion or a deletion, was told the file is not found, and the other
\* tenant's rows are what they were.
C29_Witness ==
    \E r \in Slots :
        /\ req[r].op \in {"completeUpload", "deleteFile"}
        /\ req[r].clientCode = Some(ClientA)
        /\ req[r].fileId = "b0"
        /\ req[r].pc = "done"
        /\ req[r].resp = Some(badRequest("File not found", 404))
        /\ files["b0"] = files0["b0"]
        /\ users[ClientB] = users0[ClientB]

\* C30: uploads_count and downloads_count never decrease, and when
\* operations do not overlap every step adds to a tenant's uploads_count the
\* number of its files that go from pending to active in that step, and to
\* its downloads_count the number of its download requests that the step
\* answers with success; so each counter exceeds its initial value by
\* exactly the number of such transitions and of such downloads.
C30_CountersTrackTransitions ==
    [][\A c \in DOMAIN users :
          LET activated ==
                  {f \in DOMAIN files :
                      /\ files[f].client_code = c
                      /\ files[f].status = "pending"
                      /\ files'[f].status = "active"}
              downloaded ==
                  {r \in Slots :
                      /\ req[r].op = "requestDownload"
                      /\ req[r].clientCode = Some(c)
                      /\ req[r].pc # "done"
                      /\ req'[r].pc = "done"
                      /\ req'[r].resp[1].status = 200}
          IN  /\ users'[c].uploads_count
                    = users[c].uploads_count + Cardinality(activated)
              /\ users'[c].downloads_count
                    = users[c].downloads_count + Cardinality(downloaded)
      ]_vars

\* C30 witness: one upload has been completed and one download answered
\* since the start, and each counter is one above its initial value.
C30_Witness ==
    \E r \in Slots, f \in NewFileIds :
        /\ req[r].op = "requestDownload"
        /\ req[r].pc = "done"
        /\ req[r].resp[1].status = 200
        /\ f \in DOMAIN files
        /\ files[f].status = "active"
        /\ users[ClientA].uploads_count = users0[ClientA].uploads_count + 1
        /\ users[ClientA].downloads_count = users0[ClientA].downloads_count + 1

\* The calls of the log made for one key, in their order.
CallsFor(key) == SelectSeq(call.log, LAMBDA entry : entry.key = key)

RECURSIVE FixedWindow(_, _, _)
\* calls, the calls for one key that follow the n-th call of a window ending
\* at resetAt (n = 0: no window yet), are answered as a fixed window asks:
\* a call at or after resetAt opens a window and is let through; otherwise
\* the call is let through if it is among the first call.limit of its window
\* and limited if not.
FixedWindow(calls, resetAt, n) ==
    IF calls = <<>> THEN TRUE
    ELSE IF n = 0 \/ resetAt <= Head(calls).at
    THEN /\ ~Head(calls).limited
         /\ FixedWindow(Tail(calls), Head(calls).at + call.windowMs, 1)
    ELSE /\ Head(calls).limited <=> n + 1 > call.limit
         /\ FixedWindow(Tail(calls), resetAt, n + 1)

\* C31: fixed-window rate limit.  For each key the calls of a window, from
\* the call that opens it to its resetAt, are let through up to the first
\* maxRequests and limited beyond; the first call at or after resetAt opens
\* a new window and is let through; a call changes the entry of its own key
\* only; a limited request is answered 429 and its step reads and writes no
\* users or files row, while a request let through goes on to the gate.
C31_FixedWindowRateLimit ==
    /\ [](\A key \in Ips : FixedWindow(CallsFor(key), 0, 0))
    /\ [][Len(call'.log) = Len(call.log) + 1
          => LET hit == call'.log[Len(call'.log)]
             IN  /\ SubSeq(call'.log, 1, Len(call.log)) = call.log
                 /\ hit.at = now
                 /\ \A key \in Ips \ {hit.key} :
                       call'.state[key] = call.state[key]
                 /\ \E r \in Slots :
                       /\ req[r].pc = "idle"
                       /\ req'[r].pc # "idle"
                       /\ IF hit.limited
                          THEN /\ req'[r].pc = "done"
                               /\ req'[r].resp
                                     = Some(badRequest("Too many requests", 429))
                               /\ req'[r].user = None
                               /\ req'[r].clientCode = None
                               /\ users' = users
                               /\ files' = files
                          ELSE req'[r].resp
                                  # Some(badRequest("Too many requests", 429))
      ]_vars

\* C31 witness: with two requests allowed per window of one tick, one key
\* made three calls in the first window, the third of them limited, and a
\* call at the tick of resetAt that was let through, while the other key
\* made a call of its own.
C31_Witness ==
    /\ call.limit = 2
    /\ call.windowMs = 1
    /\ \E key \in Ips :
          /\ CallsFor(key) =
                <<[key |-> key, at |-> 0, limited |-> FALSE],
                  [key |-> key, at |-> 0, limited |-> FALSE],
                  [key |-> key, at |-> 0, limited |-> TRUE],
                  [key |-> key, at |-> 1, limited |-> FALSE]>>
          /\ \E other \in Ips \ {key} : Len(CallsFor(other)) = 1

=============================================================================
